---- MODULE Spec2Model ----
(***************************************************************************)
(* Storage backup of harakka-demo (the Supabase storage export script,     *)
(* src/unnamed/part_002 lines 1-281): listBuckets, listAllFiles,           *)
(* downloadFile, exportBucket and the main export function; the storage    *)
(* restore (src/scripts/restore-storage.js) and the backup verification    *)
(* (src/scripts/verify-backup.js).                                         *)
(*                                                                         *)
(* The remote store is a set of objects (bucket, key).  A key is the       *)
(* sequence of its slash-separated segments: the script's strings          *)
(* "a/b" are <<"a", "b">> here, segments are non-empty and hold no slash.  *)
(* Every request to the store (list buckets, list a page, download, get,   *)
(* create or update a bucket, upload) may fail; writes to the local disk   *)
(* fail only where the directory layout makes them fail (a path that is    *)
(* both a file and a directory).  Each script has its specification; the   *)
(* variables of the scripts that do not run keep their idle values.        *)
(* One action is one await point of the script together with the           *)
(* synchronous code that runs up to the next one.                          *)
(***************************************************************************)
EXTENDS Naturals, Integers, Sequences, FiniteSets, TLC

VARIABLES
    store,        \* remote store: set of objects [bucket, key]
    pc,           \* position of the main export function
    exitCode,     \* process exit code: -1 while running, then 0 or 1
    buckets,      \* const buckets = await listBuckets()
    bi,           \* index of the bucket the loop of main is at
    results,      \* const results = [] of main
    stack,        \* call stack of listAllFiles: one frame per recursion level
    allFiles,     \* const allFiles of exportBucket
    fi,           \* index of the file the download loop is at
    downloaded,   \* let downloaded of exportBucket
    failed,       \* let failed of exportBucket
    totalSize,    \* let totalSize of exportBucket
    dirs,         \* local disk: directories
    dataFiles,    \* local disk: path -> content, the files under <bucket>/files
    bucketInfo,   \* local disk: bucket name -> content of its bucket-info.json
    summaryFile,  \* local disk: export-summary.json (<<>> while not written)
    calls,        \* history: the requests sent to the store, with their outcome
    listed,       \* history: bucket name -> what listAllFiles returned for it
    inflight      \* the requests sent to a store and not answered yet

\* restore-storage.js
VARIABLES
    dstBuckets,   \* store restored into: bucket name -> its settings
    dstObjects,   \* store restored into: [bucket, key] -> content, contentType
    rpc,          \* position of restoreAllStorage
    rexit,        \* exit code of the restore process: -1 while running
    rbuckets,     \* const buckets of restoreAllStorage
    rbi,          \* index of the bucket the loop of restoreAllStorage is at
    rinfo,        \* const bucketInfo of restoreBucket
    uploads,      \* the files the walk of uploadDirectory comes to, in order
    ui,           \* index of the file the walk is at
    rcalls,       \* history: the requests the restore sent, with their outcome
    faulty,       \* whether requests of the restore fail in this behaviour
    runsLeft,     \* how many more times the restore is run after this run
    afterFirst    \* history: the store as the first restore run left it

\* verify-backup.js
VARIABLES
    cloudExport,  \* local disk: the cloud-export directory and its dumps
    vpc,          \* position of the verification
    errors,       \* let errors
    warnings,     \* let warnings
    vexit,        \* exit code of the verification: -1 while running
    vmessage       \* the closing message the verification printed

\* getMimeType
VARIABLES
    fileName,     \* argument of a call of getMimeType, a sequence of characters
    mimeType      \* what the call returned (<<>> before the call)

\* a second run of the storage backup over the tree of the first
VARIABLES
    runsBefore,   \* how many runs of the storage backup ended before this one
    firstRun      \* history: the store and the tree as the first run left them

\* backup-seed.js: the complete backup command
VARIABLES
    clock,        \* the wall clock, in milliseconds
    allRun,       \* which run of the command this is (0: not started)
    allPc,        \* position of the command
    timestamp,    \* const timestamp of the run
    allExit,      \* exit code of the command: -1 while running
    dumpFiles,    \* local disk: dump file name -> the run that wrote it last
    dumpWrites,   \* history: the dump files written, each with its run
    stepLog       \* history: the steps run, each with its run and outcome

\* Categories.tsx
VARIABLES
    catError,     \* state.categories.error of the redux store
    currentPage,  \* const [currentPage, setCurrentPage] = useState(1)
    view,         \* the values the last render of Categories closed over
    fetches,      \* the fetchAllCategories requests in flight: their pages
    deletion,     \* the call of handleDelete: position, closure, outcome
    clicks        \* how many times the delete button was clicked

backupVars == <<store, pc, exitCode, buckets, bi, results, stack, allFiles, fi,
                downloaded, failed, totalSize, dirs, dataFiles, bucketInfo,
                summaryFile, calls, listed, runsBefore, firstRun>>

restoreVars == <<dstBuckets, dstObjects, rpc, rexit, rbuckets, rbi, rinfo,
                 uploads, ui, rcalls, faulty, runsLeft, afterFirst>>

verifyVars == <<cloudExport, vpc, errors, warnings, vexit, vmessage>>

mimeVars == <<fileName, mimeType>>

allVars == <<clock, allRun, allPc, timestamp, allExit, dumpFiles, dumpWrites,
             stepLog>>

pageVars == <<catError, currentPage, view, fetches, deletion, clicks>>

vars == <<backupVars, restoreVars, verifyVars, mimeVars, allVars, pageVars,
          inflight>>

\* a step of the backup: the other scripts do not run, and the request of
\* the step, if it sent one, is answered
OnlyBackup ==
    /\ inflight' = <<>>
    /\ UNCHANGED <<restoreVars, verifyVars, mimeVars, allVars, pageVars>>
    /\ UNCHANGED <<runsBefore, firstRun>>

----------------------------------------------------------------------------
\* Bounds of the model.

\* longest key of the store, in segments
MaxDepth == 3
\* most objects the store holds, over all its buckets
MaxObjects == 3

\* entry names, in ascending order
NameOrder == <<"a", "b", "c">>
Names == {NameOrder[i] : i \in 1..Len(NameOrder)}
\* the names that occur as a folder (a non-final segment of a key)
FolderNames == {"a"}

Keys ==
    {k \in UNION {[1..n -> Names] : n \in 1..MaxDepth} :
        \A i \in 1..(Len(k) - 1) : k[i] \in FolderNames}

\* The buckets of the project, in the order the store enumerates them.  A
\* file_size_limit of 0 and an empty allowed_mime_types stand for null.
StoreBuckets ==
    << [id |-> "b1", name |-> "b1", public |-> TRUE,
        file_size_limit |-> 5, allowed_mime_types |-> {"image/png"}],
       [id |-> "b2", name |-> "b2", public |-> FALSE,
        file_size_limit |-> 0, allowed_mime_types |-> {}] >>

BucketNames == {StoreBuckets[i].name : i \in 1..Len(StoreBuckets)}

\* The objects a store may hold: any key in the first bucket, and the keys
\* without folder in the buckets after it.
Objects ==
    {[bucket |-> StoreBuckets[1].name, key |-> k] : k \in Keys}
    \cup {[bucket |-> b, key |-> k] :
             b \in BucketNames \ {StoreBuckets[1].name},
             k \in {x \in Keys : Len(x) = 1}}

RECURSIVE SubsetsUpTo(_, _)
SubsetsUpTo(S, n) ==
    IF n = 0 THEN {{}}
    ELSE LET P == SubsetsUpTo(S, n - 1)
         IN  P \cup {p \cup {x} : p \in P, x \in S}

\* Content of an object: its bytes.
ObjContent(b, k) == [i \in 1..Len(k) |-> IF b = "b1" THEN 1 ELSE 2]

KeysOf(b) == {o.key : o \in {x \in store : x.bucket = b}}

----------------------------------------------------------------------------
\* The store's answer to .list(prefix, {limit, sortBy: name asc}).

NullId == "null"

IsPrefix(p, k) == Len(p) <= Len(k) /\ SubSeq(k, 1, Len(p)) = p

\* The entries under prefix named n: the object prefix/n, if stored, and the
\* folder marker (id null) synthesized when a longer key runs through prefix/n.
EntriesNamed(b, prefix, n) ==
    LET path == prefix \o <<n>>
        file == IF path \in KeysOf(b)
                THEN << [name |-> n, id |-> "object"] >> ELSE <<>>
        folder == IF \E k \in KeysOf(b) : IsPrefix(path, k) /\ Len(k) > Len(path)
                  THEN << [name |-> n, id |-> NullId] >> ELSE <<>>
    IN  file \o folder

RECURSIVE EntriesFrom(_, _, _)
EntriesFrom(b, prefix, j) ==
    IF j > Len(NameOrder) THEN <<>>
    ELSE EntriesNamed(b, prefix, NameOrder[j]) \o EntriesFrom(b, prefix, j + 1)

\* every entry under prefix, by name ascending
AllEntries(b, prefix) == EntriesFrom(b, prefix, 1)

\* limit: 1000 of the script, scaled to the pages of this model
ListLimit == 2

Min(x, y) == IF x <= y THEN x ELSE y

ListResponse(b, prefix) ==
    LET all == AllEntries(b, prefix)
    IN  SubSeq(all, 1, Min(ListLimit, Len(all)))

----------------------------------------------------------------------------
\* listAllFiles

\* FullPath with the name put before the prefix
FullPathReversed(prefix, name) == <<name>> \o prefix

\* FullPath with the prefix dropped: const fullPath = item.name
FullPathNameOnly(prefix, name) == <<name>>

\* const fullPath = prefix ? `${prefix}/${item.name}` : item.name
FullPath(prefix, name) ==
    IF prefix # <<>> THEN prefix \o <<name>> ELSE <<name>>

Frame(prefix) == [prefix |-> prefix, data |-> <<>>, i |-> 0, files |-> <<>>]

\* Resume with a folder marker pushed to files as well as listed
RECURSIVE ResumeFolderAsFile(_)
ResumeFolderAsFile(st) ==
    LET n == Len(st)
        f == st[n]
    IN  IF f.i > Len(f.data)
        THEN IF n = 1 THEN st
             ELSE LET p == st[n - 1]
                      q == [p EXCEPT !.files = @ \o f.files, !.i = @ + 1]
                  IN  ResumeFolderAsFile(Append(SubSeq(st, 1, n - 2), q))
        ELSE LET item == f.data[f.i]
                 fullPath == FullPath(f.prefix, item.name)
             IN  IF item.id = NullId
                 THEN Append([st EXCEPT ![n] =
                                 [f EXCEPT !.files = Append(@, fullPath)]],
                             Frame(fullPath))
                 ELSE ResumeFolderAsFile([st EXCEPT ![n] =
                          [f EXCEPT !.files = Append(@, fullPath), !.i = @ + 1]])

\* The for loop of listAllFiles from where the top frame stands, up to the
\* next await: the list request of a recursive call (a new frame with i = 0
\* is on top), or the return of the outermost call (one frame, loop over).
RECURSIVE Resume(_)
Resume(st) ==
    LET n == Len(st)
        f == st[n]
    IN  IF f.i > Len(f.data)
        THEN IF n = 1 THEN st
             ELSE LET p == st[n - 1]
                      q == [p EXCEPT !.files = @ \o f.files, !.i = @ + 1]
                  IN  Resume(Append(SubSeq(st, 1, n - 2), q))
        ELSE LET item == f.data[f.i]
                 fullPath == FullPath(f.prefix, item.name)
             IN  IF item.id = NullId
                 THEN Append(st, Frame(fullPath))
                 ELSE Resume([st EXCEPT ![n] =
                          [f EXCEPT !.files = Append(@, fullPath), !.i = @ + 1]])

----------------------------------------------------------------------------
\* The local disk.

\* const OUT_DIR = "./supabase/backup/storage"
OUT_DIR == <<"supabase", "backup", "storage">>

\* path.join(OUT_DIR, bucket.name)
BucketOutDir(name) == OUT_DIR \o <<name>>

\* OutPath with a directory of its own for every run
OutPathByRun(name, filePath) ==
    BucketOutDir(name)
        \o <<IF runsBefore = 0 THEN "files" ELSE "files-again">> \o filePath

\* path.join(bucketOutDir, "files", filePath)
OutPath(name, filePath) == BucketOutDir(name) \o <<"files">> \o filePath

\* path.dirname
Dirname(path) == SubSeq(path, 1, Len(path) - 1)

Ancestors(dir) == {SubSeq(dir, 1, n) : n \in 1..Len(dir)}

\* ensureDir: if (!fs.existsSync(dir)) fs.mkdirSync(dir, { recursive: true })
EnsureDir(ds, dir) ==
    IF dir \in ds \/ dir \in DOMAIN dataFiles THEN ds ELSE ds \cup Ancestors(dir)

\* ensureDir(path.dirname(outPath)) or fs.writeFileSync(outPath, ...) throws:
\* a segment of the directory is a file already, or outPath is a directory.
LocalWriteFails(outPath) ==
    \/ \E d \in Ancestors(Dirname(outPath)) : d \in DOMAIN dataFiles
    \/ outPath \in dirs

WriteFile(fs, path, content) ==
    [p \in DOMAIN fs \cup {path} |-> IF p = path THEN content ELSE fs[p]]

----------------------------------------------------------------------------
\* Records the script builds.

\* (bytes / (1024 * 1024)).toFixed(2), in hundredths of a MB
BytesPerMB == 1048576
SizeMB(bytes) == (bytes * 100 + (BytesPerMB \div 2)) \div BytesPerMB

\* new Date().toISOString() of the run: no two runs have the same
ExportDate == <<"exportDate", runsBefore>>

\* BucketResult with the files counted by the successful downloads
BucketResultCountsDownloads(bucket, files, nDown, nFail, size) ==
    [bucket |-> bucket.name, fileCount |-> nDown, downloaded |-> nDown,
     failed |-> nFail, totalSize |-> size]

\* the return value of exportBucket after the download loop
BucketResult(bucket, files, nDown, nFail, size) ==
    [bucket |-> bucket.name, fileCount |-> Len(files), downloaded |-> nDown,
     failed |-> nFail, totalSize |-> size]

\* the return value of exportBucket for a bucket without files
EmptyResult(bucket) ==
    [bucket |-> bucket.name, fileCount |-> 0, downloaded |-> 0, failed |-> 0,
     totalSize |-> 0]

\* the return value of the catch block of exportBucket
ErrorResult(bucket, message) ==
    [bucket |-> bucket.name, fileCount |-> 0, downloaded |-> 0, failed |-> 0,
     totalSize |-> 0, error |-> message]

\* const metadata = { ...bucket, exportDate, totalFiles, ... }
Metadata(bucket, files, nDown, nFail, size) ==
    [id |-> bucket.id, name |-> bucket.name, public |-> bucket.public,
     file_size_limit |-> bucket.file_size_limit,
     allowed_mime_types |-> bucket.allowed_mime_types,
     exportDate |-> ExportDate, totalFiles |-> Len(files),
     downloadedFiles |-> nDown, failedFiles |-> nFail,
     totalSizeBytes |-> size, totalSizeMB |-> SizeMB(size), files |-> files]

\* JSON.stringify(bucket) written for a bucket without files
EmptyBucketInfo(bucket) == bucket

\* results.forEach((r) => { totalFiles += r.fileCount; ... })
RECURSIVE SumFileCount(_)
SumFileCount(rs) ==
    IF rs = <<>> THEN 0 ELSE Head(rs).fileCount + SumFileCount(Tail(rs))

RECURSIVE SumDownloaded(_)
SumDownloaded(rs) ==
    IF rs = <<>> THEN 0 ELSE Head(rs).downloaded + SumDownloaded(Tail(rs))

RECURSIVE SumFailed(_)
SumFailed(rs) ==
    IF rs = <<>> THEN 0 ELSE Head(rs).failed + SumFailed(Tail(rs))

RECURSIVE SumTotalSize(_)
SumTotalSize(rs) ==
    IF rs = <<>> THEN 0 ELSE Head(rs).totalSize + SumTotalSize(Tail(rs))

\* Summary with the failed downloads left out of totalFiles
SummaryWithoutFailed(bs, rs) ==
    [exportDate |-> ExportDate, projectId |-> "project",
     totalBuckets |-> Len(bs),
     totalFiles |-> SumDownloaded(rs),
     totalDownloaded |-> SumDownloaded(rs),
     totalFailed |-> SumFailed(rs),
     totalSizeBytes |-> SumTotalSize(rs),
     totalSizeMB |-> SizeMB(SumTotalSize(rs)),
     buckets |-> rs]

\* const summary = { exportDate, projectId, ..., buckets: results }
Summary(bs, rs) ==
    [exportDate |-> ExportDate, projectId |-> "project",
     totalBuckets |-> Len(bs),
     totalFiles |-> SumFileCount(rs),
     totalDownloaded |-> SumDownloaded(rs),
     totalFailed |-> SumFailed(rs),
     totalSizeBytes |-> SumTotalSize(rs),
     totalSizeMB |-> SizeMB(SumTotalSize(rs)),
     buckets |-> rs]

----------------------------------------------------------------------------
\* getMimeType of the restore.  A file name is the sequence of its characters.

UpperCase == <<"A", "B", "C", "D", "E", "F", "G", "H", "I", "J", "K", "L", "M", "N", "O", "P", "Q", "R", "S", "T", "U", "V", "W", "X", "Y", "Z">>
LowerCase == <<"a", "b", "c", "d", "e", "f", "g", "h", "i", "j", "k", "l", "m", "n", "o", "p", "q", "r", "s", "t", "u", "v", "w", "x", "y", "z">>

\* String.prototype.toLowerCase, one character
ToLowerChar(c) ==
    IF \E i \in 1..Len(UpperCase) : UpperCase[i] = c
    THEN LowerCase[CHOOSE i \in 1..Len(UpperCase) : UpperCase[i] = c]
    ELSE c

ToLowerCase(str) == [i \in 1..Len(str) |-> ToLowerChar(str[i])]

\* The backward scan of path.extname over a name without separator: st is
\* <<startDot, preDotState>> after the characters i+1..Len(name).
RECURSIVE ExtScan(_, _, _)
ExtScan(name, i, st) ==
    IF i = 0 THEN st
    ELSE ExtScan(name, i - 1,
            IF name[i] = "."
            THEN IF st[1] = -1 THEN <<i, st[2]>> ELSE <<st[1], 1>>
            ELSE IF st[1] # -1 THEN <<st[1], -1>> ELSE st)

\* path.extname(filePath): from the last dot to the end; "" when there is no
\* dot, when the only dot is the first character, and for ".."
ExtName(name) ==
    LET st == ExtScan(name, Len(name), <<-1, 0>>)
        startDot == st[1]
        preDotState == st[2]
        end == Len(name) + 1
    IN  IF \/ startDot = -1
           \/ name = <<>>
           \/ preDotState = 0
           \/ (preDotState = 1 /\ startDot = end - 1 /\ startDot = 2)
        THEN <<>>
        ELSE SubSeq(name, startDot, Len(name))

\* const mimeTypes = { ".jpg": "image/jpeg", ... }
MimeTypes ==
    { <<<<".", "j", "p", "g">>, "image/jpeg">>,
      <<<<".", "j", "p", "e", "g">>, "image/jpeg">>,
      <<<<".", "j", "f", "i", "f">>, "image/jpeg">>,
      <<<<".", "p", "n", "g">>, "image/png">>,
      <<<<".", "w", "e", "b", "p">>, "image/webp">>,
      <<<<".", "g", "i", "f">>, "image/gif">>,
      <<<<".", "s", "v", "g">>, "image/svg+xml">>,
      <<<<".", "p", "d", "f">>, "application/pdf">>,
      <<<<".", "d", "o", "c">>, "application/msword">>,
      <<<<".", "d", "o", "c", "x">>, "application/vnd.openxmlformats-officedocument.wordprocessingml.document">>,
      <<<<".", "x", "l", "s">>, "application/vnd.ms-excel">>,
      <<<<".", "x", "l", "s", "x">>, "application/vnd.openxmlformats-officedocument.spreadsheetml.sheet">>,
      <<<<".", "t", "x", "t">>, "text/plain">>,
      <<<<".", "c", "s", "v">>, "text/csv">>,
      <<<<".", "m", "p", "4">>, "video/mp4">>,
      <<<<".", "m", "p", "3">>, "audio/mpeg">>,
      <<<<".", "z", "i", "p">>, "application/zip">>,
      <<<<".", "j", "s", "o", "n">>, "application/json">> }

OctetStream == "application/octet-stream"

\* mimeTypes[ext] || "application/octet-stream"
MimeLookup(ext) ==
    IF \E e \in MimeTypes : e[1] = ext
    THEN (CHOOSE e \in MimeTypes : e[1] = ext)[2]
    ELSE OctetStream

\* getMimeType without .toLowerCase(): the extension is looked up as written
GetMimeTypeCaseSensitive(filePath) == MimeLookup(ExtName(filePath))

GetMimeType(filePath) == MimeLookup(ToLowerCase(ExtName(filePath)))

----------------------------------------------------------------------------
\* The run.

NoFiles == [p \in {} |-> <<>>]

\* the restore has not been started
RestoreIdle ==
    /\ dstBuckets = NoFiles
    /\ dstObjects = NoFiles
    /\ rpc = "idle"
    /\ rexit = -1
    /\ rbuckets = <<>>
    /\ rbi = 0
    /\ rinfo = NoFiles
    /\ uploads = <<>>
    /\ ui = 0
    /\ rcalls = <<>>
    /\ faulty = FALSE
    /\ runsLeft = 0
    /\ afterFirst = <<>>

\* no dump has been made and the verification has not been started
NoCloudExport ==
    [exists |-> FALSE, schemas |-> "none", seed |-> "none", storage |-> "none"]

VerifyIdle ==
    /\ cloudExport = NoCloudExport
    /\ vpc = "idle"
    /\ errors = 0
    /\ warnings = 0
    /\ vexit = -1
    /\ vmessage = ""

\* getMimeType has not been called
MimeIdle ==
    /\ fileName = <<>>
    /\ mimeType = <<>>

\* the complete backup command has not been started
BackupAllIdle ==
    /\ clock = 0
    /\ allRun = 0
    /\ allPc = "idle"
    /\ timestamp = 0
    /\ allExit = -1
    /\ dumpFiles = NoFiles
    /\ dumpWrites = {}
    /\ stepLog = <<>>

\* the Categories page is not mounted
NoView == [error |-> "null", page |-> 0]
NoDeletion == [pc |-> "idle"]
PageIdle ==
    /\ catError = "null"
    /\ currentPage = 0
    /\ view = NoView
    /\ fetches = {}
    /\ deletion = NoDeletion
    /\ clicks = 0

\* the run of the storage backup is the first over an empty backup tree
FirstRun ==
    /\ runsBefore = 0
    /\ firstRun = <<>>

\* a request to the store and its answer: ok, and the page of a list request
Call(op, bucket, path, ok, page) ==
    [op |-> op, bucket |-> bucket, path |-> path, ok |-> ok, page |-> page]

\* err.message of a failed list request
ListErrorMessage == "list failed"

Init ==
    /\ FirstRun
    /\ BackupAllIdle
    /\ PageIdle
    /\ store \in SubsetsUpTo(Objects, MaxObjects)
    /\ pc = "start"
    /\ exitCode = -1
    /\ buckets = <<>>
    /\ bi = 0
    /\ results = <<>>
    /\ stack = <<>>
    /\ allFiles = <<>>
    /\ fi = 0
    /\ downloaded = 0
    /\ failed = 0
    /\ totalSize = 0
    /\ dirs = {}
    /\ dataFiles = NoFiles
    /\ bucketInfo = NoFiles
    /\ summaryFile = <<>>
    /\ calls = <<>>
    /\ listed = NoFiles
    /\ inflight = <<>>
    /\ RestoreIdle
    /\ VerifyIdle
    /\ MimeIdle

\* ListBuckets with the error swallowed: listBuckets returns no bucket
ListBucketsSwallowsError ==
    /\ pc = "start"
    /\ dirs' = EnsureDir(dirs, OUT_DIR)
    /\ \E ok \in BOOLEAN :
        /\ calls' = Append(calls, Call("listBuckets", "", <<>>, ok, <<>>))
        /\ buckets' = IF ok THEN StoreBuckets ELSE <<>>
        /\ bi' = 1
        /\ pc' = "loop"
        /\ exitCode' = exitCode
    /\ UNCHANGED <<store, results, stack, allFiles, fi, downloaded, failed,
                   totalSize, dataFiles, bucketInfo, summaryFile, listed>>
    /\ OnlyBackup

\* main: await ensureDir(OUT_DIR); const buckets = await listBuckets();
\* listBuckets throws on error and the catch of main exits with code 1.
ListBuckets ==
    /\ pc = "start"
    /\ dirs' = EnsureDir(dirs, OUT_DIR)
    /\ \E ok \in BOOLEAN :
        /\ calls' = Append(calls, Call("listBuckets", "", <<>>, ok, <<>>))
        /\ IF ok
           THEN /\ buckets' = StoreBuckets
                /\ bi' = 1
                /\ pc' = "loop"
                /\ exitCode' = exitCode
           ELSE /\ pc' = "exited"
                /\ exitCode' = 1
                /\ UNCHANGED <<buckets, bi>>
    /\ UNCHANGED <<store, results, stack, allFiles, fi, downloaded, failed,
                   totalSize, dataFiles, bucketInfo, summaryFile, listed>>
    /\ OnlyBackup

\* exportBucket(bucket) up to the list request of listAllFiles(bucket.name)
ExportBucket ==
    /\ pc = "loop"
    /\ bi <= Len(buckets)
    /\ dirs' = EnsureDir(dirs, BucketOutDir(buckets[bi].name))
    /\ stack' = <<Frame(<<>>)>>
    /\ pc' = "list"
    /\ UNCHANGED <<store, exitCode, buckets, bi, results, allFiles, fi,
                   downloaded, failed, totalSize, dataFiles, bucketInfo,
                   summaryFile, calls, listed>>
    /\ OnlyBackup

\* listAllFiles: a list request answers with a page; the loop over the page
\* runs to the next list request or to the return of listAllFiles(bucket.name),
\* after which exportBucket holds allFiles.
ListPage ==
    /\ pc = "list"
    /\ LET name == buckets[bi].name
           n == Len(stack)
           f == stack[n]
           page == ListResponse(name, f.prefix)
           st == Resume([stack EXCEPT ![n] = [f EXCEPT !.data = page, !.i = 1]])
       IN  /\ calls' = Append(calls, Call("list", name, f.prefix, TRUE, page))
           /\ IF st[Len(st)].i = 0
              THEN /\ stack' = st
                   /\ pc' = "list"
                   /\ UNCHANGED <<allFiles, fi, downloaded, failed, totalSize,
                                  listed>>
              ELSE /\ stack' = <<>>
                   /\ allFiles' = st[1].files
                   /\ listed' = WriteFile(listed, name, st[1].files)
                   /\ fi' = 1
                   /\ downloaded' = 0
                   /\ failed' = 0
                   /\ totalSize' = 0
                   /\ pc' = IF st[1].files = <<>> THEN "empty" ELSE "download"
    /\ UNCHANGED <<store, exitCode, buckets, bi, results, dirs, dataFiles,
                   bucketInfo, summaryFile>>
    /\ OnlyBackup

\* ListError with the error rethrown by exportBucket to the catch of main
ListErrorFatal ==
    /\ pc = "list"
    /\ calls' = Append(calls,
                   Call("list", buckets[bi].name, stack[Len(stack)].prefix, FALSE,
                        <<>>))
    /\ stack' = <<>>
    /\ pc' = "exited"
    /\ exitCode' = 1
    /\ UNCHANGED <<store, buckets, bi, results, allFiles, fi, downloaded,
                   failed, totalSize, dirs, dataFiles, bucketInfo, summaryFile,
                   listed>>
    /\ OnlyBackup

\* listAllFiles: the list request fails, at whatever level; the error is
\* thrown through every caller to the catch block of exportBucket, whose
\* result main pushes.
ListError ==
    /\ pc = "list"
    /\ calls' = Append(calls,
                   Call("list", buckets[bi].name, stack[Len(stack)].prefix, FALSE,
                        <<>>))
    /\ stack' = <<>>
    /\ results' = Append(results, ErrorResult(buckets[bi], ListErrorMessage))
    /\ bi' = bi + 1
    /\ pc' = "loop"
    /\ UNCHANGED <<store, exitCode, buckets, allFiles, fi, downloaded, failed,
                   totalSize, dirs, dataFiles, bucketInfo, summaryFile, listed>>
    /\ OnlyBackup

\* ExportEmpty with the bucket skipped: nothing written, no result
ExportEmptySkips ==
    /\ pc = "empty"
    /\ bi' = bi + 1
    /\ pc' = "loop"
    /\ UNCHANGED <<store, exitCode, buckets, results, stack, allFiles, fi,
                   downloaded, failed, totalSize, dirs, dataFiles, bucketInfo,
                   summaryFile, calls, listed>>
    /\ OnlyBackup

\* exportBucket: if (allFiles.length === 0) { write bucket-info.json; return }
ExportEmpty ==
    /\ pc = "empty"
    /\ bucketInfo' = WriteFile(bucketInfo, buckets[bi].name,
                               EmptyBucketInfo(buckets[bi]))
    /\ results' = Append(results, EmptyResult(buckets[bi]))
    /\ bi' = bi + 1
    /\ pc' = "loop"
    /\ UNCHANGED <<store, exitCode, buckets, stack, allFiles, fi, downloaded,
                   failed, totalSize, dirs, dataFiles, summaryFile, calls,
                   listed>>
    /\ OnlyBackup

\* DownloadFile without the try/catch of downloadFile: a failed download is
\* thrown to the catch block of exportBucket
DownloadFileThrows ==
    /\ pc = "download"
    /\ fi <= Len(allFiles)
    /\ LET name == buckets[bi].name
           file == allFiles[fi]
           outPath == OutPath(name, file)
           content == ObjContent(name, file)
       IN  \E ok \in BOOLEAN :
             /\ calls' = Append(calls, Call("download", name, file, ok, <<>>))
             /\ IF ok /\ ~LocalWriteFails(outPath)
                THEN /\ dirs' = EnsureDir(dirs, Dirname(outPath))
                     /\ dataFiles' = WriteFile(dataFiles, outPath, content)
                     /\ downloaded' = downloaded + 1
                     /\ totalSize' = totalSize + Len(content)
                     /\ fi' = fi + 1
                     /\ UNCHANGED <<failed, results, bi, pc>>
                ELSE /\ results' = Append(results,
                                      ErrorResult(buckets[bi], "download failed"))
                     /\ bi' = bi + 1
                     /\ pc' = "loop"
                     /\ UNCHANGED <<dirs, dataFiles, downloaded, totalSize,
                                    failed, fi>>
    /\ UNCHANGED <<store, exitCode, buckets, stack, allFiles, bucketInfo,
                   summaryFile, listed>>
    /\ OnlyBackup

\* one turn of the download loop: downloadFile(bucket.name, file, bucketOutDir)
\* and the counting of its result
DownloadFile ==
    /\ pc = "download"
    /\ fi <= Len(allFiles)
    /\ LET name == buckets[bi].name
           file == allFiles[fi]
           outPath == OutPath(name, file)
           content == ObjContent(name, file)
       IN  \E ok \in BOOLEAN :
             /\ calls' = Append(calls, Call("download", name, file, ok, <<>>))
             /\ IF ok /\ ~LocalWriteFails(outPath)
                THEN /\ dirs' = EnsureDir(dirs, Dirname(outPath))
                     /\ dataFiles' = WriteFile(dataFiles, outPath, content)
                     /\ downloaded' = downloaded + 1
                     /\ totalSize' = totalSize + Len(content)
                     /\ failed' = failed
                ELSE /\ failed' = failed + 1
                     /\ UNCHANGED <<dirs, dataFiles, downloaded, totalSize>>
    /\ fi' = fi + 1
    /\ UNCHANGED <<store, pc, exitCode, buckets, bi, results, stack, allFiles,
                   bucketInfo, summaryFile, listed>>
    /\ OnlyBackup

\* ExportFinish taken before the download loop has ended
ExportFinishEarly ==
    /\ pc = "download"
    /\ bucketInfo' = WriteFile(bucketInfo, buckets[bi].name,
                        Metadata(buckets[bi], allFiles, downloaded, failed,
                                 totalSize))
    /\ results' = Append(results,
                     BucketResult(buckets[bi], allFiles, downloaded, failed,
                                  totalSize))
    /\ bi' = bi + 1
    /\ pc' = "loop"
    /\ UNCHANGED <<store, exitCode, buckets, stack, allFiles, fi, downloaded,
                   failed, totalSize, dirs, dataFiles, summaryFile, calls,
                   listed>>
    /\ OnlyBackup

\* exportBucket after the download loop: write bucket-info.json and return
ExportFinish ==
    /\ pc = "download"
    /\ fi > Len(allFiles)
    /\ bucketInfo' = WriteFile(bucketInfo, buckets[bi].name,
                        Metadata(buckets[bi], allFiles, downloaded, failed,
                                 totalSize))
    /\ results' = Append(results,
                     BucketResult(buckets[bi], allFiles, downloaded, failed,
                                  totalSize))
    /\ bi' = bi + 1
    /\ pc' = "loop"
    /\ UNCHANGED <<store, exitCode, buckets, stack, allFiles, fi, downloaded,
                   failed, totalSize, dirs, dataFiles, summaryFile, calls,
                   listed>>
    /\ OnlyBackup

\* WriteSummary of a script that moves the objects: the store is emptied
\* once the summary is written
WriteSummaryEmptiesStore ==
    /\ pc = "loop"
    /\ bi > Len(buckets)
    /\ summaryFile' = <<Summary(buckets, results)>>
    /\ pc' = "done"
    /\ exitCode' = 0
    /\ store' = {}
    /\ UNCHANGED <<buckets, bi, results, stack, allFiles, fi,
                   downloaded, failed, totalSize, dirs, dataFiles, bucketInfo,
                   calls, listed>>
    /\ OnlyBackup

\* main after the loop over the buckets: write export-summary.json and end
WriteSummary ==
    /\ pc = "loop"
    /\ bi > Len(buckets)
    /\ summaryFile' = <<Summary(buckets, results)>>
    /\ pc' = "done"
    /\ exitCode' = 0
    /\ UNCHANGED <<store, buckets, bi, results, stack, allFiles, fi,
                   downloaded, failed, totalSize, dirs, dataFiles, bucketInfo,
                   calls, listed>>
    /\ OnlyBackup

Next ==
    \/ ListBuckets
    \/ ExportBucket
    \/ ListPage
    \/ ListError
    \/ ExportEmpty
    \/ DownloadFile
    \/ ExportFinish
    \/ WriteSummary

Spec == Init /\ [][Next]_vars

----------------------------------------------------------------------------
\* Specifications of the other scripts start from a backup that is not running.

\* the storage backup and the complete backup command have not been run
StorageBackupNotRun ==
    /\ FirstRun
    /\ BackupAllIdle
    /\ store = {}
    /\ pc = "idle"
    /\ exitCode = -1
    /\ buckets = <<>>
    /\ bi = 0
    /\ results = <<>>
    /\ stack = <<>>
    /\ allFiles = <<>>
    /\ fi = 0
    /\ downloaded = 0
    /\ failed = 0
    /\ totalSize = 0
    /\ calls = <<>>
    /\ listed = NoFiles
    /\ inflight = <<>>

\* neither a backup nor the Categories page
BackupNotRun ==
    /\ PageIdle
    /\ StorageBackupNotRun

NoBackupTree ==
    /\ dirs = {}
    /\ dataFiles = NoFiles
    /\ bucketInfo = NoFiles
    /\ summaryFile = <<>>

----------------------------------------------------------------------------
\* getMimeType applied to a file name.

\* longest name of the exhaustive part of the names
MaxNameLen == 4

ToUpperChar(c) ==
    IF \E i \in 1..Len(LowerCase) : LowerCase[i] = c
    THEN UpperCase[CHOOSE i \in 1..Len(LowerCase) : LowerCase[i] = c]
    ELSE c

ToUpperCase(str) == [i \in 1..Len(str) |-> ToUpperChar(str[i])]

\* first letter of the extension in upper case
Capitalized(ext) ==
    [i \in 1..Len(ext) |-> IF i = 2 THEN ToUpperChar(ext[i]) ELSE ext[i]]

ShortChars == {".", "a", "Z"}
ShortNames == UNION {[1..n -> ShortChars] : n \in 0..MaxNameLen}

Stems == {<<"a">>, <<".">>, <<".", "a">>, <<"a", ".", "b">>, <<"A", "b">>}
UnmappedExts ==
    {<<".", "x">>, <<".", "p", "n">>, <<".", "p", "n", "g", "x">>,
     <<".", "j", "p", "e">>, <<".", "t", "a", "r">>}
Extensions ==
    {e[1] : e \in MimeTypes}
        \cup {ToUpperCase(e[1]) : e \in MimeTypes}
        \cup {Capitalized(e[1]) : e \in MimeTypes}
        \cup UnmappedExts

\* the names of the table without a stem are names without extension
MimeNames ==
    ShortNames \cup {e[1] : e \in MimeTypes}
        \cup {stem \o ext : stem \in Stems, ext \in Extensions}

MimeInit ==
    /\ BackupNotRun
    /\ NoBackupTree
    /\ RestoreIdle
    /\ VerifyIdle
    /\ fileName \in MimeNames
    /\ mimeType = <<>>

\* const contentType = getMimeType(item)
GetMimeTypeCall ==
    /\ mimeType = <<>>
    /\ mimeType' = <<GetMimeType(fileName)>>
    /\ UNCHANGED <<backupVars, restoreVars, verifyVars, fileName, inflight,
                   allVars, pageVars>>

MimeNext == GetMimeTypeCall

MimeSpec == MimeInit /\ [][MimeNext]_vars

----------------------------------------------------------------------------
\* verify-backup.js

\* most failed downloads of an export summary on disk
MaxFailed == 2

\* a file whose content JSON.parse rejects
Unparsable == [unparsable |-> TRUE]
JsonParses(json) == "unparsable" \notin DOMAIN json

\* n keys: b, a/b, a/a/b, ...
SomeFiles(n) == [i \in 1..n |-> [j \in 1..i |-> IF j = i THEN "b" ELSE "a"]]

\* the summary of a run of which one download succeeded and n failed
SummaryOfRun(n) ==
    Summary(StoreBuckets,
            <<BucketResult(StoreBuckets[1], SomeFiles(n + 1), 1, n, 1),
              EmptyResult(StoreBuckets[2])>>)

\* a summary somebody cut the buckets out of
WithoutBuckets(summary) ==
    [f \in DOMAIN summary \ {"buckets"} |-> summary[f]]

SummariesOnDisk ==
    {<<>>, <<Unparsable>>}
        \cup {<<SummaryOfRun(n)>> : n \in 0..MaxFailed}
        \cup {<<WithoutBuckets(SummaryOfRun(n))>> : n \in 0..MaxFailed}

\* The latest dump of a kind in cloud-export: no file of that name, a name
\* that no longer leads to a file, a file that cannot be read, a file without
\* the expected statements, a file with them.
DumpStates == {"none", "dangling", "unreadable", "nomatch", "ok"}

VerifyInit ==
    /\ BackupNotRun
    /\ RestoreIdle
    /\ MimeIdle
    /\ dirs = {}
    /\ dataFiles = NoFiles
    /\ bucketInfo = NoFiles
    /\ summaryFile \in SummariesOnDisk
    /\ cloudExport \in
          {NoCloudExport} \cup
          [exists : {TRUE}, schemas : DumpStates, seed : DumpStates,
           storage : DumpStates]
    /\ vpc = "start"
    /\ errors = 0
    /\ warnings = 0
    /\ vexit = -1
    /\ vmessage = ""

OnlyVerify ==
    /\ inflight' = <<>>
    /\ UNCHANGED <<backupVars, restoreVars, mimeVars, cloudExport, allVars,
                   pageVars>>

\* if (!fs.existsSync(CLOUD_EXPORT_DIR)) process.exit(1)
CheckCloudExport ==
    /\ vpc = "start"
    /\ IF cloudExport.exists
       THEN /\ vpc' = "schemas"
            /\ UNCHANGED <<vexit, vmessage>>
       ELSE /\ vpc' = "exited"
            /\ vexit' = 1
            /\ vmessage' = "no-cloud-export"
    /\ UNCHANGED <<errors, warnings>>
    /\ OnlyVerify

\* findLatestFile, checkFileExists and checkFileContains for one dump
ErrorsOfDump(dump) == IF dump \in {"none", "dangling", "unreadable"} THEN 1 ELSE 0
WarningsOfDump(dump) == IF dump = "nomatch" THEN 1 ELSE 0

CheckDump(at, dump, then) ==
    /\ vpc = at
    /\ errors' = errors + ErrorsOfDump(dump)
    /\ warnings' = warnings + WarningsOfDump(dump)
    /\ vpc' = then
    /\ UNCHANGED <<vexit, vmessage>>
    /\ OnlyVerify

CheckSchemas == CheckDump("schemas", cloudExport.schemas, "seed")
CheckSeed == CheckDump("seed", cloudExport.seed, "storage_schema")
CheckStorageSchema ==
    CheckDump("storage_schema", cloudExport.storage, "storage")

\* the exception of the try block: the catch exits with code 1
VerifyThrows(w) ==
    /\ warnings' = w
    /\ vpc' = "exited"
    /\ vexit' = 1
    /\ vmessage' = "exception"
    /\ UNCHANGED errors

\* CheckStorageExport without the warning for summary.totalFailed > 0
CheckStorageExportIgnoresFailed ==
    /\ vpc = "storage"
    /\ IF summaryFile = <<>>
       THEN /\ errors' = errors + 2
            /\ vpc' = "summary"
            /\ UNCHANGED <<warnings, vexit, vmessage>>
       ELSE IF ~JsonParses(summaryFile[1])
       THEN VerifyThrows(warnings)
       ELSE IF "buckets" \notin DOMAIN summaryFile[1]
            THEN VerifyThrows(warnings)
            ELSE /\ warnings' = warnings
                 /\ vpc' = "summary"
                 /\ UNCHANGED <<errors, vexit, vmessage>>
    /\ OnlyVerify

\* 3. Check storage export
CheckStorageExport ==
    /\ vpc = "storage"
    /\ IF summaryFile = <<>>
       THEN /\ errors' = errors + 2
            /\ vpc' = "summary"
            /\ UNCHANGED <<warnings, vexit, vmessage>>
       ELSE IF ~JsonParses(summaryFile[1])
       THEN VerifyThrows(warnings)
       ELSE LET summary == summaryFile[1]
                w == IF summary.totalFailed > 0 THEN warnings + 1 ELSE warnings
            IN  IF "buckets" \notin DOMAIN summary
                THEN VerifyThrows(w)
                ELSE /\ warnings' = w
                     /\ vpc' = "summary"
                     /\ UNCHANGED <<errors, vexit, vmessage>>
    /\ OnlyVerify

\* 4. Summary
VerifyExit ==
    /\ vpc = "summary"
    /\ vpc' = "exited"
    /\ IF errors = 0 /\ warnings = 0
       THEN vexit' = 0 /\ vmessage' = "all-verified"
       ELSE IF errors = 0
       THEN vexit' = 0 /\ vmessage' = "warnings"
       ELSE vexit' = 1 /\ vmessage' = "failed"
    /\ UNCHANGED <<errors, warnings>>
    /\ OnlyVerify

VerifyNext ==
    \/ CheckCloudExport
    \/ CheckSchemas
    \/ CheckSeed
    \/ CheckStorageSchema
    \/ CheckStorageExport
    \/ VerifyExit

VerifySpec == VerifyInit /\ [][VerifyNext]_vars

----------------------------------------------------------------------------
\* restore-storage.js: the walk of files/ and the requests to the store.
\* The key of an object of the destination store is the string the script
\* sends: the names of the path with "/" between them.

PlaceholderName == ".emptyFolderPlaceholder"

\* fs.readdirSync: the names of a directory, in the order of the file system
LocalNameOrder == <<PlaceholderName>> \o NameOrder

\* the characters of the file names of the model: a, a.png and c.TXT
FileNameChars(item) ==
    CASE item = "b" -> <<"a", ".", "p", "n", "g">>
      [] item = "c" -> <<"c", ".", "T", "X", "T">>
      [] OTHER -> <<item>>

\* uploadDirectory(bucketName, dirPath, prefix) from the j-th name of the
\* directory on: the uploads it makes, in order
RECURSIVE UploadDirectoryFrom(_, _, _)
UploadDirectoryFrom(dirPath, prefix, j) ==
    IF j > Len(LocalNameOrder) THEN <<>>
    ELSE LET item == LocalNameOrder[j]
             itemPath == dirPath \o <<item>>
             rest == UploadDirectoryFrom(dirPath, prefix, j + 1)
         IN  IF itemPath \notin dirs /\ itemPath \notin DOMAIN dataFiles
             THEN rest
             ELSE IF item = PlaceholderName THEN rest
             ELSE IF itemPath \in dirs
             THEN UploadDirectoryFrom(itemPath, prefix \o <<item, "/">>, 1)
                      \o rest
             ELSE <<[filePath |-> prefix \o <<item>>,
                     itemPath |-> itemPath,
                     contentType |-> GetMimeType(FileNameChars(item))]>>
                      \o rest

UploadDirectory(dirPath, prefix) == UploadDirectoryFrom(dirPath, prefix, 1)

\* BucketOptions with public left out of the options
BucketOptionsWithoutPublic(info) ==
    [public |-> FALSE, fileSizeLimit |-> info.file_size_limit,
     allowedMimeTypes |-> info.allowed_mime_types]

\* { public: bucketInfo.public, fileSizeLimit: ..., allowedMimeTypes: ... }
BucketOptions(info) ==
    [public |-> info.public, fileSizeLimit |-> info.file_size_limit,
     allowedMimeTypes |-> info.allowed_mime_types]

\* the settings the store keeps for a bucket created or updated with options
BucketSettings(options) ==
    [public |-> options.public, file_size_limit |-> options.fileSizeLimit,
     allowed_mime_types |-> options.allowedMimeTypes]

ObjectId(bucket, key) == [bucket |-> bucket, key |-> key]

\* StoreUpload which keeps an object that is there and stores the upload
\* under a second key
StoreUploadKeepsBoth(objects, bucket, key, content, contentType) ==
    IF ObjectId(bucket, key) \in DOMAIN objects
    THEN WriteFile(objects, ObjectId(bucket, key \o <<"~">>),
                   [content |-> content, contentType |-> contentType])
    ELSE WriteFile(objects, ObjectId(bucket, key),
                   [content |-> content, contentType |-> contentType])

\* .upload(filePath, fileBuffer, { contentType, upsert: true }) accepted
StoreUpload(objects, bucket, key, content, contentType) ==
    WriteFile(objects, ObjectId(bucket, key),
              [content |-> content, contentType |-> contentType])

\* a request of the restore to the store and whether it succeeded
RCall(op, bucket, key, ok, contentType, upsert) ==
    [op |-> op, bucket |-> bucket, key |-> key, ok |-> ok,
     contentType |-> contentType, upsert |-> upsert]

BucketCall(op, bucket, ok) == RCall(op, bucket, <<>>, ok, "", FALSE)

\* the answers of the store: any request may fail when the run is faulty
Answers == IF faulty THEN BOOLEAN ELSE {TRUE}

OnlyRestore ==
    /\ inflight' = <<>>
    /\ UNCHANGED <<backupVars, verifyVars, mimeVars, faulty, allVars,
                   pageVars>>

\* the names of the bucket directories, in the order of StoreBuckets
BucketDirNames == [i \in 1..Len(StoreBuckets) |-> StoreBuckets[i].name]

\* the filter of restoreAllStorage
IsBucketDir(item) == BucketOutDir(item) \in dirs /\ item \in DOMAIN bucketInfo

\* the promise of restoreAllStorage is rejected: .catch(console.error) prints
\* the error and the process ends
RestoreRejected ==
    /\ rpc' = "rejected"
    /\ rexit' = 0

\* restoreAllStorage up to the loop over the buckets
RestoreAllStorage ==
    /\ rpc = "start"
    /\ IF OUT_DIR \notin dirs
       THEN /\ RestoreRejected
            /\ UNCHANGED <<rbuckets, rbi>>
       ELSE /\ rbuckets' = SelectSeq(BucketDirNames, IsBucketDir)
            /\ rbi' = 1
            /\ rpc' = "loop"
            /\ UNCHANGED rexit
    /\ UNCHANGED <<dstBuckets, dstObjects, rinfo, uploads, ui, rcalls,
                   runsLeft, afterFirst>>
    /\ OnlyRestore

\* restoreBucket up to the getBucket request
RestoreBucket ==
    /\ rpc = "loop"
    /\ rbi <= Len(rbuckets)
    /\ LET bucketName == rbuckets[rbi]
       IN  IF bucketName \notin DOMAIN bucketInfo
           THEN /\ rbi' = rbi + 1
                /\ UNCHANGED <<rpc, rexit, rinfo>>
           ELSE IF ~JsonParses(bucketInfo[bucketName])
           THEN /\ RestoreRejected
                /\ UNCHANGED <<rbi, rinfo>>
           ELSE /\ rinfo' = bucketInfo[bucketName]
                /\ rpc' = "getBucket"
                /\ UNCHANGED <<rbi, rexit>>
    /\ UNCHANGED <<dstBuckets, dstObjects, rbuckets, uploads, ui, rcalls,
                   runsLeft, afterFirst>>
    /\ OnlyRestore

\* const { data: existingBucket } = await supabase.storage.getBucket(...)
GetBucket ==
    /\ rpc = "getBucket"
    /\ \E ok \in Answers :
         /\ rcalls' = Append(rcalls, BucketCall("getBucket", rbuckets[rbi], ok))
         /\ rpc' = IF ok /\ rbuckets[rbi] \in DOMAIN dstBuckets
                   THEN "updateBucket" ELSE "createBucket"
    /\ UNCHANGED <<dstBuckets, dstObjects, rexit, rbuckets, rbi, rinfo,
                   uploads, ui, runsLeft, afterFirst>>
    /\ OnlyRestore

\* restoreBucket from "// Upload files" to the first upload request, or to
\* its end when there is nothing to upload
UploadFiles ==
    LET filesPath == BucketOutDir(rbuckets[rbi]) \o <<"files">>
        ups == IF filesPath \in dirs THEN UploadDirectory(filesPath, <<>>)
               ELSE <<>>
    IN  /\ uploads' = ups
        /\ ui' = 1
        /\ IF ups = <<>>
           THEN rpc' = "loop" /\ rbi' = rbi + 1
           ELSE rpc' = "upload" /\ rbi' = rbi

\* restoreBucket returns without uploading
SkipBucket ==
    /\ rpc' = "loop"
    /\ rbi' = rbi + 1
    /\ UNCHANGED <<uploads, ui>>

\* UpdateBucket of a restore that empties a bucket it finds before it fills it
UpdateBucketEmptiesBucket ==
    /\ rpc = "updateBucket"
    /\ \E ok \in Answers :
         LET bucketName == rbuckets[rbi]
             done == ok /\ bucketName \in DOMAIN dstBuckets
         IN  /\ rcalls' = Append(rcalls, BucketCall("updateBucket", bucketName,
                                                    done))
             /\ dstBuckets' =
                  IF done
                  THEN WriteFile(dstBuckets, bucketName,
                                 BucketSettings(BucketOptions(rinfo)))
                  ELSE dstBuckets
             /\ dstObjects' =
                  [o \in {x \in DOMAIN dstObjects : x.bucket # bucketName} |->
                      dstObjects[o]]
    /\ UploadFiles
    /\ UNCHANGED <<rexit, rbuckets, rinfo, runsLeft, afterFirst>>
    /\ OnlyRestore

\* await supabase.storage.updateBucket(...): the answer is not looked at
UpdateBucket ==
    /\ rpc = "updateBucket"
    /\ \E ok \in Answers :
         LET bucketName == rbuckets[rbi]
             done == ok /\ bucketName \in DOMAIN dstBuckets
         IN  /\ rcalls' = Append(rcalls, BucketCall("updateBucket", bucketName,
                                                    done))
             /\ dstBuckets' =
                  IF done
                  THEN WriteFile(dstBuckets, bucketName,
                                 BucketSettings(BucketOptions(rinfo)))
                  ELSE dstBuckets
    /\ UploadFiles
    /\ UNCHANGED <<dstObjects, rexit, rbuckets, rinfo, runsLeft, afterFirst>>
    /\ OnlyRestore

\* const { error } = await supabase.storage.createBucket(...)
CreateBucket ==
    /\ rpc = "createBucket"
    /\ \E ok \in Answers :
         LET bucketName == rbuckets[rbi]
             done == ok /\ bucketName \notin DOMAIN dstBuckets
         IN  /\ rcalls' = Append(rcalls, BucketCall("createBucket", bucketName,
                                                    done))
             /\ IF done
                THEN /\ dstBuckets' =
                          WriteFile(dstBuckets, bucketName,
                                    BucketSettings(BucketOptions(rinfo)))
                     /\ UploadFiles
                ELSE /\ dstBuckets' = dstBuckets
                     /\ SkipBucket
    /\ UNCHANGED <<dstObjects, rexit, rbuckets, rinfo, runsLeft, afterFirst>>
    /\ OnlyRestore

\* Upload with the walk of the bucket given up at the first failed upload
UploadStopsOnError ==
    /\ rpc = "upload"
    /\ \E ok \in Answers :
         LET bucketName == rbuckets[rbi]
             up == uploads[ui]
             done == ok /\ bucketName \in DOMAIN dstBuckets
         IN  /\ rcalls' = Append(rcalls, RCall("upload", bucketName,
                                   up.filePath, done, up.contentType, TRUE))
             /\ dstObjects' =
                  IF done
                  THEN StoreUpload(dstObjects, bucketName, up.filePath,
                                   dataFiles[up.itemPath], up.contentType)
                  ELSE dstObjects
             /\ ui' = ui + 1
             /\ IF ui = Len(uploads) \/ ~done
                THEN rpc' = "loop" /\ rbi' = rbi + 1
                ELSE rpc' = "upload" /\ rbi' = rbi
    /\ UNCHANGED <<dstBuckets, rexit, rbuckets, rinfo, uploads, runsLeft,
                   afterFirst>>
    /\ OnlyRestore

\* const { error } = await supabase.storage.from(bucketName).upload(...)
\* and the walk up to the next upload or to the end of restoreBucket
Upload ==
    /\ rpc = "upload"
    /\ \E ok \in Answers :
         LET bucketName == rbuckets[rbi]
             up == uploads[ui]
             done == ok /\ bucketName \in DOMAIN dstBuckets
         IN  /\ rcalls' = Append(rcalls, RCall("upload", bucketName,
                                   up.filePath, done, up.contentType, TRUE))
             /\ dstObjects' =
                  IF done
                  THEN StoreUpload(dstObjects, bucketName, up.filePath,
                                   dataFiles[up.itemPath], up.contentType)
                  ELSE dstObjects
             /\ ui' = ui + 1
             /\ IF ui = Len(uploads)
                THEN rpc' = "loop" /\ rbi' = rbi + 1
                ELSE rpc' = "upload" /\ rbi' = rbi
    /\ UNCHANGED <<dstBuckets, rexit, rbuckets, rinfo, uploads, runsLeft,
                   afterFirst>>
    /\ OnlyRestore

\* restoreAllStorage after the loop: the promise resolves, the process ends
RestoreComplete ==
    /\ rpc = "loop"
    /\ rbi > Len(rbuckets)
    /\ rpc' = "done"
    /\ rexit' = 0
    /\ UNCHANGED <<dstBuckets, dstObjects, rbuckets, rbi, rinfo, uploads, ui,
                   rcalls, runsLeft, afterFirst>>
    /\ OnlyRestore

\* the script is run again on the same tree and the same store
RestoreAgain ==
    /\ rpc \in {"done", "rejected"}
    /\ runsLeft > 0
    /\ runsLeft' = runsLeft - 1
    /\ afterFirst' = <<[buckets |-> dstBuckets, objects |-> dstObjects]>>
    /\ rpc' = "start"
    /\ rexit' = -1
    /\ rbuckets' = <<>>
    /\ rbi' = 0
    /\ rinfo' = NoFiles
    /\ uploads' = <<>>
    /\ ui' = 0
    /\ UNCHANGED <<dstBuckets, dstObjects, rcalls>>
    /\ OnlyRestore

\* most files of a backup tree the restore starts from
MaxLocalFiles == 2

\* the files a backup tree may hold under the files/ of its buckets
LocalObjects ==
    {ObjectId(StoreBuckets[1].name, k) :
        k \in {<<"b">>, <<"c">>, <<PlaceholderName>>, <<"a", "b">>,
               <<"a", PlaceholderName>>, <<"a", "a", "b">>}}
        \cup {ObjectId(StoreBuckets[i].name, k) :
                i \in 2..Len(StoreBuckets), k \in {<<"b">>, <<PlaceholderName>>}}

\* bucket-info.json of a bucket directory: written by the backup, damaged, or
\* not there
InfoStates == {"manifest", "unparsable", "none"}

TreeDirs(files, infos) ==
    Ancestors(OUT_DIR)
        \cup {BucketOutDir(b) : b \in {n \in BucketNames : infos[n] # "none"}}
        \cup UNION {Ancestors(Dirname(OutPath(o.bucket, o.key))) : o \in files}

TreeFiles(files) ==
    [p \in {OutPath(o.bucket, o.key) : o \in files} |->
        LET o == CHOOSE x \in files : OutPath(x.bucket, x.key) = p
        IN  ObjContent(o.bucket, o.key)]

TreeInfos(infos) ==
    [b \in {n \in BucketNames : infos[n] # "none"} |->
        IF infos[b] = "manifest"
        THEN EmptyBucketInfo(
                 StoreBuckets[CHOOSE i \in 1..Len(StoreBuckets) :
                                  StoreBuckets[i].name = b])
        ELSE Unparsable]

\* a bucket of the destination that differs from every manifest, and an object
\* that differs from every file of the tree
OtherSettings ==
    [public |-> FALSE, file_size_limit |-> 1, allowed_mime_types |-> {"text/plain"}]
OldObject == [content |-> <<9>>, contentType |-> OctetStream]

\* the destination store: empty, or populated
DestStores ==
    { [buckets |-> NoFiles, objects |-> NoFiles],
      [buckets |-> [b \in {"b1"} |-> OtherSettings], objects |-> NoFiles],
      [buckets |-> [b \in {"b1", "b3"} |-> OtherSettings],
       objects |-> [o \in {ObjectId("b1", <<"b">>), ObjectId("b1", <<"z">>),
                            ObjectId("b3", <<"b">>)} |-> OldObject]] }

\* a run of restore-storage.js on a backup tree, against a store that is there
RestoreStart(isFaulty, runs) ==
    /\ BackupNotRun
    /\ VerifyIdle
    /\ MimeIdle
    /\ summaryFile = <<>>
    /\ \/ NoBackupTree
       \/ \E files \in SubsetsUpTo(LocalObjects, MaxLocalFiles),
             infos \in [BucketNames -> InfoStates] :
            /\ dirs = TreeDirs(files, infos)
            /\ dataFiles = TreeFiles(files)
            /\ bucketInfo = TreeInfos(infos)
    /\ \E dest \in DestStores :
         /\ dstBuckets = dest.buckets
         /\ dstObjects = dest.objects
    /\ rpc = "start"
    /\ rexit = -1
    /\ rbuckets = <<>>
    /\ rbi = 0
    /\ rinfo = NoFiles
    /\ uploads = <<>>
    /\ ui = 0
    /\ rcalls = <<>>
    /\ faulty = isFaulty
    /\ runsLeft = runs
    /\ afterFirst = <<>>

RestoreInit == RestoreStart(TRUE, 0)

RestoreNext ==
    \/ RestoreAllStorage
    \/ RestoreBucket
    \/ GetBucket
    \/ UpdateBucket
    \/ CreateBucket
    \/ Upload
    \/ RestoreComplete

RestoreSpec == RestoreInit /\ [][RestoreNext]_vars

\* two runs in a row, the store answering every request
RestoreTwiceInit == RestoreStart(FALSE, 1)

RestoreTwiceNext ==
    \/ RestoreNext
    \/ RestoreAgain

RestoreTwiceSpec == RestoreTwiceInit /\ [][RestoreTwiceNext]_vars

----------------------------------------------------------------------------
\* A backup into an empty backup directory, then a restore of its tree into a
\* fresh store that answers every request.

\* node scripts/restore-storage.js after the backup has ended with code 0
StartRestore ==
    /\ pc = "done"
    /\ rpc = "idle"
    /\ rpc' = "start"
    /\ UNCHANGED <<dstBuckets, dstObjects, rexit, rbuckets, rbi, rinfo,
                   uploads, ui, rcalls, runsLeft, afterFirst>>
    /\ OnlyRestore

RoundTripInit == Init

\* a fresh store holds no bucket: getBucket finds none and none is updated
RoundTripNext ==
    \/ Next
    \/ StartRestore
    \/ RestoreAllStorage
    \/ RestoreBucket
    \/ GetBucket
    \/ CreateBucket
    \/ Upload
    \/ RestoreComplete

RoundTripSpec == RoundTripInit /\ [][RoundTripNext]_vars

----------------------------------------------------------------------------
\* The requests in flight.  Every request of the two scripts is awaited: the
\* statement after it runs when the answer has come.

\* the script stands at an await
AtAwait ==
    \/ pc \in {"start", "list"}
    \/ pc = "download" /\ fi <= Len(allFiles)
    \/ rpc \in {"getBucket", "updateBucket", "createBucket", "upload"}

\* the request of the await the script stands at; n numbers the transfers of
\* a bucket
Request(op, bucket, path, n) ==
    [op |-> op, bucket |-> bucket, path |-> path, n |-> n]

AwaitedRequest ==
    IF pc = "start" THEN Request("listBuckets", "", <<>>, 0)
    ELSE IF pc = "list"
    THEN Request("list", buckets[bi].name, stack[Len(stack)].prefix, 0)
    ELSE IF pc = "download"
    THEN Request("download", buckets[bi].name, allFiles[fi], fi)
    ELSE IF rpc = "upload"
    THEN Request("upload", rbuckets[rbi], uploads[ui].filePath, ui)
    ELSE Request(rpc, rbuckets[rbi], <<>>, 0)

\* SendRequest of a script that does not await: the next request leaves
\* while the last is in flight
SendRequestWithoutAwait ==
    /\ AtAwait
    /\ inflight' = Append(inflight, AwaitedRequest)
    /\ UNCHANGED <<backupVars, restoreVars, verifyVars, mimeVars, allVars,
                   pageVars>>

\* await supabase.storage...: the request leaves
SendRequest ==
    /\ AtAwait
    /\ inflight = <<>>
    /\ inflight' = Append(inflight, AwaitedRequest)
    /\ UNCHANGED <<backupVars, restoreVars, verifyVars, mimeVars, allVars,
                   pageVars>>

\* a run of the backup, or a run of the restore
AwaitInit == Init \/ RestoreInit

AwaitNext ==
    \/ SendRequest
    \/ /\ inflight # <<>>
       /\ \/ ListBuckets
          \/ ListPage
          \/ ListError
          \/ DownloadFile
          \/ GetBucket
          \/ UpdateBucket
          \/ CreateBucket
          \/ Upload
    \/ ExportBucket
    \/ ExportEmpty
    \/ ExportFinish
    \/ WriteSummary
    \/ RestoreAllStorage
    \/ RestoreBucket
    \/ RestoreComplete

AwaitSpec == AwaitInit /\ [][AwaitNext]_vars

----------------------------------------------------------------------------
\* The storage backup run a second time over the tree of the first run.

\* the process of the storage backup at its start
StartRun ==
    /\ pc' = "start"
    /\ exitCode' = -1
    /\ buckets' = <<>>
    /\ bi' = 0
    /\ results' = <<>>
    /\ stack' = <<>>
    /\ allFiles' = <<>>
    /\ fi' = 0
    /\ downloaded' = 0
    /\ failed' = 0
    /\ totalSize' = 0
    /\ calls' = <<>>
    /\ listed' = NoFiles

\* the backup tree on the local disk
Tree ==
    [dirs |-> dirs, dataFiles |-> dataFiles, bucketInfo |-> bucketInfo,
     summaryFile |-> summaryFile]

\* node scripts/export-storage.js once more: the script starts from its
\* first line over the disk as it is.  Between the two runs an object may
\* have been deleted from the store.
BackupAgain ==
    /\ pc = "done"
    /\ runsBefore = 0
    /\ \E gone \in {{}} \cup {{o} : o \in store} : store' = store \ gone
    /\ runsBefore' = runsBefore + 1
    /\ firstRun' = <<[store |-> store, tree |-> Tree]>>
    /\ StartRun
    /\ inflight' = <<>>
    /\ UNCHANGED <<dirs, dataFiles, bucketInfo, summaryFile>>
    /\ UNCHANGED <<restoreVars, verifyVars, mimeVars, allVars, pageVars>>

\* every request of the run was answered without error
NoTransferError == \A i \in 1..Len(calls) : calls[i].ok

\* the two runs, of which no request fails
BackupTwiceNext ==
    \/ ListBuckets /\ NoTransferError'
    \/ ExportBucket
    \/ ListPage
    \/ ExportEmpty
    \/ DownloadFile /\ NoTransferError'
    \/ ExportFinish
    \/ WriteSummary
    \/ BackupAgain

BackupTwiceSpec == Init /\ [][BackupTwiceNext]_vars

----------------------------------------------------------------------------
\* backup-seed.js: the complete backup command.  dumpFiles is the content of
\* supabase/backup/cloud-export, which the command creates when it starts.

\* now.toISOString().replace(/[-:T.]/g, "").slice(0, 14): the 14 characters
\* kept are the date and the time to the second, the milliseconds are cut off
MsPerSecond == 1000
Timestamp(ms) == ms \div MsPerSecond

\* how long a child process started with execSync may run, in milliseconds
Durations == {1, MsPerSecond}

\* const steps: the three dumps
Steps == <<"schemas", "seed_data", "storage_schema">>

\* `${timestamp}_schemas.sql`, `${timestamp}_seed_data.sql`, ...
StepFile(ts, i) == <<ts, Steps[i]>>

\* the entries of stepLog of the run under way
StepsOfRun(r) == SelectSeq(stepLog, LAMBDA e : e.run = r)

\* index of steps.forEach
StepIndex == Len(StepsOfRun(allRun)) + 1

LogStep(i, state) == [run |-> allRun, step |-> i, state |-> state]

\* what a run of supabase db dump -f <file> may come to: the file written and
\* exit code 0, exit code 0 without a file written, or another exit code
DumpOutcomes == {"written", "nofile", "failed"}

\* the stores the command is run against
BackupAllStores ==
    {{}, {[bucket |-> StoreBuckets[1].name, key |-> <<"b">>]}}

BackupAllInit ==
    /\ FirstRun
    /\ BackupAllIdle
    /\ PageIdle
    /\ store \in BackupAllStores
    /\ pc = "idle"
    /\ exitCode = -1
    /\ buckets = <<>>
    /\ bi = 0
    /\ results = <<>>
    /\ stack = <<>>
    /\ allFiles = <<>>
    /\ fi = 0
    /\ downloaded = 0
    /\ failed = 0
    /\ totalSize = 0
    /\ calls = <<>>
    /\ listed = NoFiles
    /\ inflight = <<>>
    /\ NoBackupTree
    /\ RestoreIdle
    /\ VerifyIdle
    /\ MimeIdle

\* a step of the command outside its storage export
OnlyBackupAll ==
    /\ inflight' = <<>>
    /\ UNCHANGED <<restoreVars, verifyVars, mimeVars, pageVars>>

\* the script up to const steps: the timestamp is taken from the clock
StartBackupAll(wait) ==
    /\ clock' = clock + wait
    /\ timestamp' = Timestamp(clock')
    /\ allRun' = allRun + 1
    /\ allPc' = "dump"
    /\ allExit' = -1
    /\ UNCHANGED <<dumpFiles, dumpWrites, stepLog, backupVars>>
    /\ OnlyBackupAll

\* node scripts/backup-all.js for the first time
BackupAllFirst ==
    /\ allPc = "idle"
    /\ StartBackupAll(0)

\* the command run again after a run of it has ended, at once or later
BackupAllAgain ==
    /\ allPc = "exited"
    /\ allRun = 1
    /\ \E wait \in {0, MsPerSecond} : StartBackupAll(wait)

\* DumpStep that goes on to the next step when the step has failed
DumpStepIgnoresFailure ==
    /\ allPc = "dump"
    /\ LET i == StepIndex
           file == StepFile(timestamp, i)
       IN  \E d \in Durations, outcome \in DumpOutcomes :
             /\ clock' = clock + d
             /\ IF outcome = "written"
                THEN /\ dumpFiles' = WriteFile(dumpFiles, file, allRun)
                     /\ dumpWrites' = dumpWrites \cup {[run |-> allRun, file |-> file]}
                ELSE UNCHANGED <<dumpFiles, dumpWrites>>
             /\ stepLog' = Append(stepLog,
                               LogStep(i, IF outcome # "failed" /\ file \in DOMAIN dumpFiles'
                                          THEN "ok" ELSE "failed"))
             /\ allPc' = IF i = Len(Steps) THEN "export" ELSE "dump"
             /\ UNCHANGED allExit
    /\ UNCHANGED <<allRun, timestamp, backupVars>>
    /\ OnlyBackupAll

\* one turn of steps.forEach: execSync(step.command) and the reading of the
\* file it wrote.  execSync throws when the command exits with another code
\* than 0 and readFileSync throws when there is no file; the catch block
\* exits with code 1.
DumpStep ==
    /\ allPc = "dump"
    /\ LET i == StepIndex
           file == StepFile(timestamp, i)
       IN  \E d \in Durations, outcome \in DumpOutcomes :
             /\ clock' = clock + d
             /\ IF outcome = "written"
                THEN /\ dumpFiles' = WriteFile(dumpFiles, file, allRun)
                     /\ dumpWrites' = dumpWrites \cup {[run |-> allRun, file |-> file]}
                ELSE UNCHANGED <<dumpFiles, dumpWrites>>
             /\ IF outcome # "failed" /\ file \in DOMAIN dumpFiles'
                THEN /\ stepLog' = Append(stepLog, LogStep(i, "ok"))
                     /\ allPc' = IF i = Len(Steps) THEN "export" ELSE "dump"
                     /\ UNCHANGED allExit
                ELSE /\ stepLog' = Append(stepLog, LogStep(i, "failed"))
                     /\ allPc' = "exited"
                     /\ allExit' = 1
    /\ UNCHANGED <<allRun, timestamp, backupVars>>
    /\ OnlyBackupAll

\* execSync("node scripts/export-storage.js"): the storage backup starts
StartExport ==
    /\ allPc = "export"
    /\ allPc' = "exporting"
    /\ stepLog' = Append(stepLog, LogStep(Len(Steps) + 1, "running"))
    /\ StartRun
    /\ runsBefore' = allRun - 1
    /\ UNCHANGED <<store, dirs, dataFiles, bucketInfo, summaryFile, firstRun>>
    /\ UNCHANGED <<clock, allRun, timestamp, allExit, dumpFiles, dumpWrites>>
    /\ OnlyBackupAll

\* the storage backup has ended: execSync returns, or throws when the exit
\* code is not 0.  After it the sizes of the three dumps are read and the
\* command exits with code 0.
EndExport ==
    /\ allPc = "exporting"
    /\ pc \in {"done", "exited"}
    /\ \E d \in Durations : clock' = clock + d
    /\ LET ok == exitCode = 0
                   /\ \A i \in 1..Len(Steps) :
                          StepFile(timestamp, i) \in DOMAIN dumpFiles
       IN  /\ stepLog' = [stepLog EXCEPT ![Len(stepLog)].state =
                              IF exitCode = 0 THEN "ok" ELSE "failed"]
           /\ allExit' = IF ok THEN 0 ELSE 1
    /\ allPc' = "exited"
    /\ UNCHANGED <<allRun, timestamp, dumpFiles, dumpWrites, backupVars>>
    /\ OnlyBackupAll

BackupAllNext ==
    \/ BackupAllFirst
    \/ BackupAllAgain
    \/ DumpStep
    \/ StartExport
    \/ ListBuckets
    \/ ExportBucket
    \/ ListPage
    \/ ListError
    \/ ExportEmpty
    \/ DownloadFile
    \/ ExportFinish
    \/ WriteSummary
    \/ EndExport

BackupAllSpec == BackupAllInit /\ [][BackupAllNext]_vars

----------------------------------------------------------------------------
\* verify-backup.js run after the storage backup has ended.

\* a cloud-export directory whose three dumps are found and hold what
\* the verification looks for
AllDumps == [exists |-> TRUE, schemas |-> "ok", seed |-> "ok", storage |-> "ok"]

\* node scripts/verify-backup.js over the tree the storage backup left
StartVerify ==
    /\ pc = "done"
    /\ vpc = "idle"
    /\ vpc' = "start"
    /\ cloudExport' \in {AllDumps, [AllDumps EXCEPT !.seed = "nomatch"]}
    /\ inflight' = <<>>
    /\ UNCHANGED <<errors, warnings, vexit, vmessage>>
    /\ UNCHANGED <<backupVars, restoreVars, mimeVars, allVars, pageVars>>

VerifyAfterBackupNext ==
    \/ Next
    \/ StartVerify
    \/ VerifyNext

VerifyAfterBackupSpec == Init /\ [][VerifyAfterBackupNext]_vars

----------------------------------------------------------------------------
\* Categories.tsx: the list of categories of the admin panel.  The component
\* reads state.categories.error with a selector when it renders; handleDelete
\* is created by a render and closes over the values of that render.
\* categoriesSlice is imported and not among the sources: of its reducers the
\* model fixes that a rejected thunk sets the error, and leaves open whether
\* a pending or a fulfilled thunk clears it.

\* most clicks on a delete button
MaxClicks == 2

\* the pages of the table
Pages == {1, 2}

\* state.categories.error after a thunk action of the slice
SliceError(action, error) ==
    IF action = "rejected" THEN {"error"} ELSE {"null", error}

\* what a render closes over: const error = useAppSelector(...), currentPage
Rendered == [error |-> catError, page |-> currentPage]

\* the page is mounted: first render and the effect that fetches page 1
CategoriesInit ==
    /\ StorageBackupNotRun
    /\ NoBackupTree
    /\ RestoreIdle
    /\ VerifyIdle
    /\ MimeIdle
    /\ catError \in {"null", "error"}
    /\ currentPage = 1
    /\ view = [error |-> catError, page |-> 1]
    /\ fetches = {1}
    /\ deletion = NoDeletion
    /\ clicks = 0

OnlyPage ==
    UNCHANGED <<backupVars, restoreVars, verifyVars, mimeVars, allVars, inflight>>

\* the component renders again after the store or its state has changed;
\* the effect runs when currentPage is not the page of the render before
Render ==
    /\ view # Rendered
    /\ view' = Rendered
    /\ IF view.page # currentPage
       THEN /\ fetches' = fetches \cup {currentPage}
            /\ catError' \in SliceError("pending", catError)
       ELSE UNCHANGED <<fetches, catError>>
    /\ UNCHANGED <<currentPage, deletion, clicks>>
    /\ OnlyPage

\* const handlePageChange = (newPage) => setCurrentPage(newPage)
HandlePageChange ==
    /\ \E newPage \in Pages \ {currentPage} : currentPage' = newPage
    /\ UNCHANGED <<catError, view, fetches, deletion, clicks>>
    /\ OnlyPage

\* a fetchAllCategories request is answered
FetchSettled ==
    /\ \E page \in fetches, ok \in BOOLEAN :
         /\ fetches' = fetches \ {page}
         /\ catError' \in SliceError(IF ok THEN "fulfilled" ELSE "rejected",
                                     catError)
    /\ UNCHANGED <<currentPage, view, deletion, clicks>>
    /\ OnlyPage

\* the delete button of a row is clicked: handleDelete of the render on
\* screen runs to await dispatch(deleteCategory(id))
ClickDelete ==
    /\ deletion.pc # "awaiting"
    /\ clicks < MaxClicks
    /\ view = Rendered
    /\ clicks' = clicks + 1
    /\ deletion' = [pc |-> "awaiting", before |-> catError,
                    error |-> view.error, page |-> view.page]
    /\ catError' \in SliceError("pending", catError)
    /\ UNCHANGED <<currentPage, view, fetches>>
    /\ OnlyPage

\* the delete request is answered and handleDelete resumes after its await:
\* if (error) return toast.error(...); toast.success(...); dispatch(fetch...)
\* where error and currentPage are the values handleDelete closed over
HandleDeleteResumes ==
    /\ deletion.pc = "awaiting"
    /\ \E ok \in BOOLEAN :
         \E settled \in SliceError(IF ok THEN "fulfilled" ELSE "rejected",
                                   catError) :
           IF deletion.error # "null"
           THEN /\ deletion' = [pc |-> "done", before |-> deletion.before,
                                page |-> deletion.page, ok |-> ok,
                                toast |-> "fail", refetch |-> 0]
                /\ catError' = settled
                /\ UNCHANGED fetches
           ELSE /\ deletion' = [pc |-> "done", before |-> deletion.before,
                                page |-> deletion.page, ok |-> ok,
                                toast |-> "success", refetch |-> deletion.page]
                /\ fetches' = fetches \cup {deletion.page}
                /\ catError' \in SliceError("pending", settled)
    /\ UNCHANGED <<currentPage, view, clicks>>
    /\ OnlyPage

CategoriesNext ==
    \/ Render
    \/ HandlePageChange
    \/ FetchSettled
    \/ ClickDelete
    \/ HandleDeleteResumes

CategoriesSpec == CategoriesInit /\ [][CategoriesNext]_vars

----------------------------------------------------------------------------
\* Vocabulary of the properties.

ToSet(seq) == {seq[i] : i \in 1..Len(seq)}

NoRepeat(seq) == \A i, j \in 1..Len(seq) : seq[i] = seq[j] => i = j

RECURSIVE SeqSum(_)
SeqSum(ns) == IF ns = <<>> THEN 0 ELSE Head(ns) + SeqSum(Tail(ns))

\* the indices of the requests of one kind sent for a bucket
Requests(op, b) ==
    {i \in 1..Len(calls) : calls[i].op = op /\ calls[i].bucket = b}

ListFailed(b) == \E i \in Requests("list", b) : ~calls[i].ok

DownloadFailed(b) == \E i \in Requests("download", b) : ~calls[i].ok

\* the index in results of the result of bucket b, if it has one
ResultIndex(b) == {i \in 1..Len(results) : results[i].bucket = b}

\* the object entries and the folder markers of a page
FileEntries(page) == {i \in 1..Len(page) : page[i].id # NullId}
FolderEntries(page) == {i \in 1..Len(page) : page[i].id = NullId}

\* the prefixes a bucket has entries under
Prefixes(b) == {<<>>} \cup UNION {Ancestors(Dirname(k)) : k \in KeysOf(b)}

\* no page the store can return for the bucket holds an entry name twice
PagesHaveDistinctNames(b) ==
    \A p \in Prefixes(b) :
        LET page == AllEntries(b, p)
        IN  \A i, j \in 1..Len(page) : page[i].name = page[j].name => i = j

----------------------------------------------------------------------------
\* C1: every result record of exportBucket has downloaded + failed =
\* fileCount, whatever downloads succeeded or failed; the record of a bucket
\* whose listing failed has fileCount = downloaded = failed = 0 and carries
\* the listing error.
C1_ResultCountsAddUp ==
    \A i \in 1..Len(results) :
        LET r == results[i]
        IN  /\ r.downloaded + r.failed = r.fileCount
            /\ ListFailed(r.bucket) =>
                  /\ r.fileCount = 0 /\ r.downloaded = 0 /\ r.failed = 0
                  /\ "error" \in DOMAIN r
                  /\ r.error = ListErrorMessage

\* a run with a bucket that had downloads of both outcomes and a bucket whose
\* listing failed
C1_Witness ==
    /\ \E i \in 1..Len(results) :
          results[i].downloaded >= 1 /\ results[i].failed >= 1
    /\ \E i \in 1..Len(results) : ListFailed(results[i].bucket)

\* C2: listAllFiles(bucket, "") returns every object key stored in the
\* bucket, also when a prefix holds more entries than one page.
C2_ListsEveryKey ==
    \A b \in DOMAIN listed : ToSet(listed[b]) = KeysOf(b)

\* C3: when no page of the bucket holds an entry name twice, the sequence
\* listAllFiles returns holds no key twice.
C3_NoKeyTwice ==
    \A b \in DOMAIN listed : PagesHaveDistinctNames(b) => NoRepeat(listed[b])

\* a listing that went through two levels of folders and returned two keys
C3_Witness ==
    \E b \in DOMAIN listed :
        /\ PagesHaveDistinctNames(b)
        /\ Len(listed[b]) >= 2
        /\ \E k \in ToSet(listed[b]) : Len(k) = 3

\* the page the store returned to the i-th request, a list request
PageOf(i) == calls[i].page

\* the i-th request is a list request that a folder marker of the page of an
\* earlier list request of the same bucket stands for
FromFolderMarker(i) ==
    \E j \in 1..(i - 1) :
        /\ calls[j].op = "list" /\ calls[j].bucket = calls[i].bucket
        /\ calls[j].ok
        /\ \E e \in FolderEntries(PageOf(j)) :
              calls[i].path = calls[j].path \o <<PageOf(j)[e].name>>

\* per request: how many entries of the kind the page of a list request of
\* bucket b holds, 0 for the other requests
CountPerRequest(b, Kind(_)) ==
    [i \in 1..Len(calls) |->
        IF i \in Requests("list", b) THEN Cardinality(Kind(PageOf(i))) ELSE 0]

\* C4: a listing entry with a null id is never a key of the output of
\* listAllFiles and is never downloaded, it only starts the listing of
\* prefix/name; every entry with an id is put in the output once, and no
\* listing starts from it.
C4_FolderMarkersOnlyRecurse ==
    /\ \A i \in 1..Len(calls) :
          /\ (calls[i].op = "list" /\ calls[i].path # <<>>) => FromFolderMarker(i)
          /\ calls[i].op = "download" =>
                /\ calls[i].bucket \in DOMAIN listed
                /\ \E j \in Requests("list", calls[i].bucket) :
                      \E e \in FileEntries(PageOf(j)) :
                          calls[i].path = FullPath(calls[j].path, PageOf(j)[e].name)
    /\ \A b \in DOMAIN listed :
          /\ Len(listed[b]) = SeqSum(CountPerRequest(b, FileEntries))
          /\ Cardinality(Requests("list", b)) =
                1 + SeqSum(CountPerRequest(b, FolderEntries))
          /\ \A k \in ToSet(listed[b]) :
                \E j \in Requests("list", b) :
                    \E e \in FileEntries(PageOf(j)) :
                        k = FullPath(calls[j].path, PageOf(j)[e].name)

\* a bucket whose root page holds a folder marker and an object, listed and
\* under download
C4_Witness ==
    \E b \in DOMAIN listed :
        /\ \E i \in Requests("list", b) :
              /\ calls[i].path = <<>>
              /\ FolderEntries(PageOf(i)) # {}
              /\ FileEntries(PageOf(i)) # {}
        /\ \E i \in Requests("list", b) : calls[i].path # <<>>
        /\ Requests("download", b) # {}

\* the buckets enumerated after bucket b
BucketsAfter(b) ==
    {buckets[j].name : j \in {n \in 1..Len(buckets) :
                                 \E m \in 1..(n - 1) : buckets[m].name = b}}

\* bucket b was exported: its objects were listed from the root, and main
\* holds its result
Exported(b) ==
    /\ \E i \in Requests("list", b) : calls[i].path = <<>>
    /\ ResultIndex(b) # {}

\* the keys download requests were sent for, in the order of the requests
IsDownloadOf(b, c) == c.op = "download" /\ c.bucket = b
DownloadsOf(b) ==
    LET Test(c) == IsDownloadOf(b, c)
        sel == SelectSeq(calls, Test)
    IN  [i \in 1..Len(sel) |-> sel[i].path]

\* C5: when the download of an object fails, every object listed after it in
\* the bucket is still attempted, the result of the bucket and its
\* bucket-info.json record failed >= 1, the buckets after it are exported,
\* and the run ends with exit code 0.
C5_DownloadFailureIsolated ==
    \A b \in BucketNames :
        DownloadFailed(b) =>
            /\ exitCode # 1
            /\ \A i \in ResultIndex(b) :
                  /\ DownloadsOf(b) = listed[b]
                  /\ results[i].failed >= 1
                  /\ b \in DOMAIN bucketInfo
                  /\ "failedFiles" \in DOMAIN bucketInfo[b]
                  /\ bucketInfo[b].failedFiles >= 1
            /\ pc = "done" =>
                  /\ exitCode = 0
                  /\ ResultIndex(b) # {}
                  /\ \A later \in BucketsAfter(b) : Exported(later)

\* a finished run in which the first download of the first bucket failed,
\* more objects were listed after it, and the second bucket has objects
C5_Witness ==
    /\ pc = "done"
    /\ \E i \in Requests("download", "b1") :
          /\ ~calls[i].ok
          /\ calls[i].path = listed["b1"][1]
    /\ Len(listed["b1"]) >= 2
    /\ "b2" \in DOMAIN listed
    /\ listed["b2"] # <<>>

\* C6: when listing the objects of a bucket fails, at whatever level of the
\* recursion, the result of the bucket carries the error and zero counts, no
\* object of the bucket is downloaded, the buckets after it are exported and
\* export-summary.json is written.
C6_ListFailureIsolated ==
    \A b \in BucketNames :
        ListFailed(b) =>
            /\ exitCode # 1
            /\ Requests("download", b) = {}
            /\ \A p \in DOMAIN dataFiles : ~IsPrefix(BucketOutDir(b), p)
            /\ ResultIndex(b) # {}
            /\ \A i \in ResultIndex(b) :
                  /\ "error" \in DOMAIN results[i]
                  /\ results[i].fileCount = 0
                  /\ results[i].downloaded = 0
                  /\ results[i].failed = 0
            /\ pc = "done" =>
                  /\ \A later \in BucketsAfter(b) : Exported(later)
                  /\ Len(summaryFile) = 1

\* a finished run in which a list request below the root failed for the
\* first bucket and the second bucket had an object downloaded
C6_Witness ==
    /\ pc = "done"
    /\ \E i \in Requests("list", "b1") : ~calls[i].ok /\ calls[i].path # <<>>
    /\ \E i \in Requests("download", "b2") : calls[i].ok

\* C7: when the listing of the buckets fails, the run exits with code 1, no
\* bucket is exported and export-summary.json is not written.
C7_BucketListFailureAborts ==
    (\E i \in 1..Len(calls) : calls[i].op = "listBuckets" /\ ~calls[i].ok) =>
        /\ exitCode = 1
        /\ pc = "exited"
        /\ ~ENABLED Next
        /\ Len(calls) = 1
        /\ results = <<>>
        /\ DOMAIN bucketInfo = {}
        /\ DOMAIN dataFiles = {}
        /\ summaryFile = <<>>

\* the run after the listing of the buckets failed
C7_Witness ==
    /\ \E i \in 1..Len(calls) : calls[i].op = "listBuckets" /\ ~calls[i].ok
    /\ exitCode = 1

\* C8: a bucket with zero objects is not skipped: its bucket-info.json is
\* written and its result in the export summary has fileCount = 0,
\* downloaded = 0, failed = 0 and no error.
C8_EmptyBucketExported ==
    \A b \in BucketNames :
        (KeysOf(b) = {} /\ ~ListFailed(b)) =>
            /\ \A i \in ResultIndex(b) :
                  /\ b \in DOMAIN bucketInfo
                  /\ results[i].fileCount = 0
                  /\ results[i].downloaded = 0
                  /\ results[i].failed = 0
                  /\ "error" \notin DOMAIN results[i]
            /\ pc = "done" =>
                  /\ Exported(b)
                  /\ \E i \in ResultIndex(b) : summaryFile[1].buckets[i] = results[i]

\* a finished run over an empty first bucket and a second bucket with objects
C8_Witness ==
    /\ pc = "done"
    /\ KeysOf("b1") = {}
    /\ ~ListFailed("b1")
    /\ "b2" \in DOMAIN listed
    /\ listed["b2"] # <<>>

\* C9: every bucket-info.json a run writes, for an empty bucket as for any
\* other, holds totalFiles, downloadedFiles, failedFiles, totalSizeBytes and
\* files, with totalFiles the number of keys in files.
C9_BucketInfoHasRunMetadata ==
    \A b \in DOMAIN bucketInfo :
        /\ {"totalFiles", "downloadedFiles", "failedFiles", "totalSizeBytes",
            "files"} \subseteq DOMAIN bucketInfo[b]
        /\ bucketInfo[b].totalFiles = Len(bucketInfo[b].files)

\* the buckets in the order their export began
IsRootList(c) == c.op = "list" /\ c.path = <<>>
ProcessedOrder ==
    LET sel == SelectSeq(calls, IsRootList)
    IN  [i \in 1..Len(sel) |-> sel[i].bucket]

\* C10: in export-summary.json, totalFiles, totalDownloaded, totalFailed and
\* totalSizeBytes are the sums of fileCount, downloaded, failed and totalSize
\* over the results in buckets, totalBuckets is the number of those results,
\* the results are in the order the buckets were processed, and
\* totalDownloaded + totalFailed = totalFiles.
C10_SummaryTotals ==
    pc = "done" =>
        /\ Len(summaryFile) = 1
        /\ LET s == summaryFile[1]
               rs == s.buckets
           IN  /\ s.totalFiles = SeqSum([i \in 1..Len(rs) |-> rs[i].fileCount])
               /\ s.totalDownloaded =
                     SeqSum([i \in 1..Len(rs) |-> rs[i].downloaded])
               /\ s.totalFailed = SeqSum([i \in 1..Len(rs) |-> rs[i].failed])
               /\ s.totalSizeBytes =
                     SeqSum([i \in 1..Len(rs) |-> rs[i].totalSize])
               /\ s.totalBuckets = Len(rs)
               /\ [i \in 1..Len(rs) |-> rs[i].bucket] = ProcessedOrder
               /\ s.totalDownloaded + s.totalFailed = s.totalFiles

\* a finished run with objects in both buckets, downloads of both outcomes
C10_Witness ==
    /\ pc = "done"
    /\ Len(summaryFile) = 1
    /\ summaryFile[1].totalDownloaded >= 1
    /\ summaryFile[1].totalFailed >= 1
    /\ \A i \in 1..Len(results) : results[i].fileCount >= 1

----------------------------------------------------------------------------
Max(S) == CHOOSE x \in S : \A y \in S : y <= x

Dots(name) == {i \in 1..Len(name) : name[i] = "."}

\* the extension of a name: what follows its last dot, that dot included,
\* when that dot is not the first character of the name
HasExtension(name) == Dots(name) # {} /\ Max(Dots(name)) > 1
Extension(name) == SubSeq(name, Max(Dots(name)), Len(name))

\* C18: getMimeType returns, for every file name, the MIME type the table maps
\* the lower-cased extension of the name to, and application/octet-stream
\* when the table has no such extension or the name has no extension; the
\* content type returned is never empty.
C18_MimeTypeOfExtension ==
    mimeType # <<>> =>
        /\ mimeType[1] # ""
        /\ IF /\ HasExtension(fileName)
              /\ \E e \in MimeTypes : e[1] = ToLowerCase(Extension(fileName))
           THEN \A e \in MimeTypes :
                   e[1] = ToLowerCase(Extension(fileName))
                       => mimeType[1] = e[2]
           ELSE mimeType[1] = OctetStream

\* a name with an upper-case extension of the table has been typed
C18_Witness ==
    /\ fileName = <<"a", ".", "b", ".", "P", "N", "G">>
    /\ mimeType = <<"image/png">>

----------------------------------------------------------------------------
\* verify-backup has read an export summary that reports failed downloads
ReadFailedSummary ==
    /\ vpc = "exited"
    /\ cloudExport.exists
    /\ summaryFile # <<>>
    /\ JsonParses(summaryFile[1])
    /\ summaryFile[1].totalFailed > 0

\* every artifact the verification requires is there and can be read
ArtifactsReadable ==
    /\ cloudExport.exists
    /\ \A d \in {cloudExport.schemas, cloudExport.seed, cloudExport.storage} :
          d \in {"nomatch", "ok"}
    /\ summaryFile # <<>>
    /\ JsonParses(summaryFile[1])
    /\ "buckets" \in DOMAIN summaryFile[1]

\* C19: when the export summary verify-backup reads has totalFailed > 0, the
\* verification counts at least one warning, does not print the all-verified
\* message, and exits 0 when no required artifact is missing or unreadable.
C19_FailedDownloadsAreWarned ==
    ReadFailedSummary =>
        /\ warnings >= 1
        /\ vmessage # "all-verified"
        /\ ArtifactsReadable => (vexit = 0 /\ vmessage = "warnings")

\* every dump is complete and the only warning is the one of the summary
C19_Witness ==
    /\ ReadFailedSummary
    /\ ArtifactsReadable
    /\ cloudExport.schemas = "ok" /\ cloudExport.seed = "ok"
    /\ cloudExport.storage = "ok"
    /\ warnings = 1
    /\ vexit = 0

----------------------------------------------------------------------------
\* Vocabulary of the properties of the restore.

RRequests(op, b) ==
    {i \in 1..Len(rcalls) : rcalls[i].op = op /\ rcalls[i].bucket = b}

\* the requests that create or update bucket b
MetadataRequests(b) == RRequests("createBucket", b) \cup RRequests("updateBucket", b)

RestoreEnded == rpc \in {"done", "rejected"}

\* restoreBucket(b) has returned
BucketReturned(b) == \E i \in 1..Len(rbuckets) : rbuckets[i] = b /\ i < rbi

\* the directories under the backup root
BackupDirs == {b \in BucketNames : BucketOutDir(b) \in dirs}

HasManifest(b) == b \in DOMAIN bucketInfo /\ JsonParses(bucketInfo[b])

\* the regular files under files/ of bucket b, by their path relative to files/
FilesDir(b) == BucketOutDir(b) \o <<"files">>
RegularFiles(b) ==
    {SubSeq(p, Len(FilesDir(b)) + 1, Len(p)) :
        p \in {q \in DOMAIN dataFiles : IsPrefix(FilesDir(b), q)}}

\* the names of a path with a slash between them
RECURSIVE SlashJoined(_)
SlashJoined(path) ==
    IF Len(path) <= 1 THEN path
    ELSE <<Head(path), "/">> \o SlashJoined(Tail(path))

\* the keys of bucket b in the destination store
DstKeys(b) == {o.key : o \in {x \in DOMAIN dstObjects : x.bucket = b}}

\* C13: once the request that creates or updates the bucket of a directory
\* with a bucket-info.json has succeeded, a bucket of that name exists in the
\* store with public, file size limit and allowed MIME types equal to the
\* values of the manifest, whether it was updated or created.
C13_BucketMatchesManifest ==
    \A b \in BucketNames :
        (\E i \in MetadataRequests(b) : rcalls[i].ok) =>
            /\ HasManifest(b)
            /\ b \in DOMAIN dstBuckets
            /\ dstBuckets[b].public = bucketInfo[b].public
            /\ dstBuckets[b].file_size_limit = bucketInfo[b].file_size_limit
            /\ dstBuckets[b].allowed_mime_types
                   = bucketInfo[b].allowed_mime_types

\* one bucket was there and has been updated, another has been created
C13_Witness ==
    /\ rpc = "done"
    /\ \E i \in RRequests("updateBucket", "b1") : rcalls[i].ok
    /\ \E i \in RRequests("createBucket", "b2") : rcalls[i].ok
    /\ dstBuckets["b1"] # OtherSettings

\* C14: when the request that creates or updates a bucket fails, no file of
\* that bucket is uploaded, and every remaining bucket directory is still
\* restored.
C14_MetadataFailureAbortsBucket ==
    \A b \in BucketNames :
        (\E i \in MetadataRequests(b) : ~rcalls[i].ok) =>
            /\ RRequests("upload", b) = {}
            /\ rpc = "done" =>
                 \A d \in BackupDirs :
                     HasManifest(d) => RRequests("getBucket", d) # {}

\* C15: a directory under the backup root whose bucket-info.json is missing
\* or cannot be parsed is skipped, without a request for it, and every other
\* bucket directory is still restored by the run.
C15_BadManifestSkipped ==
    /\ \A b \in BackupDirs : ~HasManifest(b) =>
          /\ MetadataRequests(b) = {}
          /\ RRequests("getBucket", b) = {}
          /\ RRequests("upload", b) = {}
    /\ RestoreEnded /\ OUT_DIR \in dirs =>
          \A d \in BackupDirs : HasManifest(d) => RRequests("getBucket", d) # {}

\* the keys of the upload requests for bucket b, in the order they were sent
UploadKeys(b) ==
    LET IsUpload(c) == c.op = "upload" /\ c.bucket = b
        ups == SelectSeq(rcalls, IsUpload)
    IN  [i \in 1..Len(ups) |-> ups[i].key]

\* restoreBucket(b) has walked files/ to the end
WalkEnded(b) ==
    /\ BucketReturned(b)
    /\ \/ RRequests("updateBucket", b) # {}
       \/ \E i \in RRequests("createBucket", b) : rcalls[i].ok

C17_FatalErrorExitsOne ==
    /\ rpc = "rejected" => rexit = 1
    /\ rpc = "done" => rexit = 0

----------------------------------------------------------------------------
\* the backup of bucket b completed with zero failed downloads
CleanBackup(b) ==
    \E i \in ResultIndex(b) :
        results[i].failed = 0 /\ "error" \notin DOMAIN results[i]

\* C11: for every bucket whose backup into an empty backup directory
\* completed with zero failed downloads, the restore of that backup into a
\* fresh store yields a bucket of the same name that holds exactly the object
\* keys of the source bucket, each with the same bytes.
C11_RoundTrip ==
    rpc = "done" =>
        \A b \in BucketNames :
            CleanBackup(b) =>
                /\ b \in DOMAIN dstBuckets
                /\ DstKeys(b) = {SlashJoined(k) : k \in KeysOf(b)}
                /\ \A k \in KeysOf(b) :
                       dstObjects[ObjectId(b, SlashJoined(k))].content
                           = ObjContent(b, k)

----------------------------------------------------------------------------
\* C20: during a backup or a restore run at most one request to the store is
\* in flight at any time, and when the transfer of item n of a bucket is in
\* flight the n - 1 transfers before it have been answered and their outcomes
\* counted.
C20_OneRequestAtATime ==
    /\ Len(inflight) <= 1
    /\ \A i \in 1..Len(inflight) :
         LET r == inflight[i]
         IN  /\ r.op = "download" =>
                  /\ downloaded + failed = r.n - 1
                  /\ Cardinality(Requests("download", r.bucket)) = r.n - 1
             /\ r.op = "upload" =>
                  Cardinality(RRequests("upload", r.bucket)) = r.n - 1

\* the second download of a bucket is in flight and the first has failed
C20_Witness ==
    /\ Len(inflight) = 1
    /\ inflight[1].op = "download"
    /\ inflight[1].n = 2
    /\ failed = 1

----------------------------------------------------------------------------
\* C21: within one bucket the downloads are attempted in the order of the
\* list listAllFiles returned, each entry of the list once, and
\* bucket-info.json is written only after the last entry has been attempted.
C21_DownloadsInListingOrder ==
    \A b \in BucketNames :
        /\ b \notin DOMAIN listed => DownloadsOf(b) = <<>>
        /\ b \in DOMAIN listed =>
             /\ Len(DownloadsOf(b)) <= Len(listed[b])
             /\ DownloadsOf(b) = SubSeq(listed[b], 1, Len(DownloadsOf(b)))
        /\ b \in DOMAIN bucketInfo =>
             /\ b \in DOMAIN listed
             /\ DownloadsOf(b) = listed[b]

\* the manifest of a bucket is written after three downloads, the second of
\* which failed
C21_Witness ==
    /\ "b1" \in DOMAIN bucketInfo
    /\ Len(DownloadsOf("b1")) = 3
    /\ \E i, j \in Requests("download", "b1") :
         i < j /\ calls[i].ok /\ ~calls[j].ok

----------------------------------------------------------------------------
\* Order of strings by the codes of their characters.

\* the characters of the names and the slash, by ascending code
Ascii == <<".", "/">> \o UpperCase \o LowerCase
CharCode(c) == CHOOSE i \in 1..Len(Ascii) : Ascii[i] = c

RECURSIVE StrLess(_, _)
StrLess(s, t) ==
    IF t = <<>> THEN FALSE
    ELSE IF s = <<>> THEN TRUE
    ELSE IF Head(s) = Head(t) THEN StrLess(Tail(s), Tail(t))
    ELSE CharCode(Head(s)) < CharCode(Head(t))

\* the string of a key: the characters of its names with a slash between
RECURSIVE KeyChars(_)
KeyChars(k) ==
    IF Len(k) = 1 THEN FileNameChars(k[1])
    ELSE FileNameChars(k[1]) \o <<"/">> \o KeyChars(Tail(k))

\* C22: every listing page being sorted by entry name ascending, the keys
\* listAllFiles returns for a bucket are in ascending order of the full key.
C22_ListedAscendingByKey ==
    \A b \in DOMAIN listed :
        \A i, j \in 1..Len(listed[b]) :
            i < j => StrLess(KeyChars(listed[b][i]), KeyChars(listed[b][j]))

\* k1 and k2 part ways at a name, and the name of k1 is the lesser
SegmentBefore(k1, k2) ==
    \E n \in 1..Min(Len(k1), Len(k2)) :
        /\ SubSeq(k1, 1, n - 1) = SubSeq(k2, 1, n - 1)
        /\ StrLess(FileNameChars(k1[n]), FileNameChars(k2[n]))

\* C22, amended: the keys listAllFiles returns are in depth-first order:
\* of two keys that part ways at a name, the one with the lesser name at
\* that place comes first (keys compared name by name, not as strings).
C22_ListedDepthFirstByName ==
    \A b \in DOMAIN listed :
        \A i, j \in 1..Len(listed[b]) :
            (i < j /\ ~IsPrefix(listed[b][i], listed[b][j])
                   /\ ~IsPrefix(listed[b][j], listed[b][i]))
                => SegmentBefore(listed[b][i], listed[b][j])

\* the key a/a.png of a folder is listed before the key a.png of the root
C22_Witness ==
    /\ "b1" \in DOMAIN listed
    /\ listed["b1"] = <<<<"a", "b">>, <<"b">>>>

----------------------------------------------------------------------------
\* the requests of the backup that read the store
ReadRequests == {"listBuckets", "list", "download"}

\* C25: a storage backup run never changes the remote store: no step of it
\* changes an object, and the only requests it sends are list buckets, list
\* objects and download, whatever fails.
C25_BackupReadsOnly ==
    [][/\ store' = store
       /\ \A i \in 1..Len(calls') : calls'[i].op \in ReadRequests]_vars

\* a run has ended on a store with objects after a failed download and a
\* failed listing
C25_Witness ==
    /\ pc = "done"
    /\ Cardinality(store) = MaxObjects
    /\ \E b \in BucketNames : DownloadFailed(b)
    /\ \E b \in BucketNames : ListFailed(b)

----------------------------------------------------------------------------
\* the keys the backup tree holds for bucket b
TreeKeys(b) == {SlashJoined(k) : k \in RegularFiles(b)}

\* bucket b of the store has no directory in the backup tree
NoDirectory(b) == BucketOutDir(b) \notin dirs

ObjectsOf(objects, b) == {o \in DOMAIN objects : o.bucket = b}

\* C29: a restore run never deletes anything: no bucket and no object of the
\* store goes away, an object whose key is not in the backup tree keeps its
\* content, and a bucket of the store without a directory in the backup tree
\* is neither created, updated nor written to.
C29_RestoreNeverDeletes ==
    [][/\ DOMAIN dstBuckets \subseteq DOMAIN dstBuckets'
       /\ DOMAIN dstObjects \subseteq DOMAIN dstObjects'
       /\ \A o \in DOMAIN dstObjects :
            o.key \notin TreeKeys(o.bucket) => dstObjects'[o] = dstObjects[o]
       /\ \A b \in DOMAIN dstBuckets' :
            NoDirectory(b) =>
                /\ b \in DOMAIN dstBuckets
                /\ dstBuckets'[b] = dstBuckets[b]
                /\ ObjectsOf(dstObjects', b) = ObjectsOf(dstObjects, b)
                /\ \A o \in ObjectsOf(dstObjects, b) :
                       dstObjects'[o] = dstObjects[o]
                /\ \A i \in 1..Len(rcalls') : rcalls'[i].bucket # b]_vars

\* a run has updated a bucket of the store and overwritten one of its
\* objects; the object the tree does not hold and the bucket the tree does
\* not name are as they were
C29_Witness ==
    /\ rpc = "done"
    /\ \E i \in RRequests("updateBucket", "b1") : rcalls[i].ok
    /\ \E i \in RRequests("upload", "b1") : rcalls[i].ok /\ rcalls[i].key = <<"b">>
    /\ ObjectId("b1", <<"z">>) \in DOMAIN dstObjects
    /\ dstObjects[ObjectId("b1", <<"z">>)] = OldObject
    /\ dstObjects[ObjectId("b1", <<"b">>)] # OldObject
    /\ "b3" \in DOMAIN dstBuckets
    /\ dstBuckets["b3"] = OtherSettings
    /\ dstObjects[ObjectId("b3", <<"b">>)] = OldObject

----------------------------------------------------------------------------
\* Properties of a second run of the storage backup.

\* a manifest or a summary without its exportDate
WithoutDate(json) == [f \in DOMAIN json \ {"exportDate"} |-> json[f]]

TreeWithoutDates(t) ==
    [dirs |-> t.dirs,
     dataFiles |-> t.dataFiles,
     bucketInfo |-> [b \in DOMAIN t.bucketInfo |-> WithoutDate(t.bucketInfo[b])],
     summaryFile |->
         [i \in DOMAIN t.summaryFile |-> WithoutDate(t.summaryFile[i])]]

\* the run that left tree t counted no failed download and no failed bucket
NoFailure(t) ==
    /\ t.summaryFile # <<>>
    /\ t.summaryFile[1].totalFailed = 0
    /\ \A i \in 1..Len(t.summaryFile[1].buckets) :
           "error" \notin DOMAIN t.summaryFile[1].buckets[i]

\* the second run has ended and the store is the store of the first run
SecondRunOfSameStore ==
    /\ pc = "done"
    /\ runsBefore = 1
    /\ firstRun[1].store = store

\* C23: when the storage backup is run twice against an unchanged store and
\* neither run has a transfer failure, the backup tree after the second run
\* (directories, downloaded files, every bucket-info.json and
\* export-summary.json, apart from exportDate) is the tree after the first.
C23_SecondRunSameTree ==
    (SecondRunOfSameStore /\ NoFailure(firstRun[1].tree) /\ NoFailure(Tree))
        => TreeWithoutDates(Tree) = TreeWithoutDates(firstRun[1].tree)

\* a second run over two objects, one of them in a folder, that wrote a
\* manifest with another exportDate than the first
C23_Witness ==
    /\ SecondRunOfSameStore
    /\ NoFailure(firstRun[1].tree)
    /\ NoFailure(Tree)
    /\ \E o \in store : o.bucket = "b1" /\ Len(o.key) = 2
    /\ Cardinality(store) = 2
    /\ bucketInfo["b1"].exportDate # firstRun[1].tree.bucketInfo["b1"].exportDate
    /\ summaryFile[1].exportDate # firstRun[1].tree.summaryFile[1].exportDate

\* the key list bucket-info.json of bucket b records
ManifestKeys(b) ==
    ToSet(bucketInfo[b].files)

\* C27: after a run of the storage backup in which bucket b had no listing
\* error and no failed download, the files under <backupRoot>/<b>/files are
\* the keys its bucket-info.json records, also when the directory held files
\* of an earlier run whose objects have been deleted from the store since.
C27_FilesAreManifestKeys ==
    \A b \in BucketNames :
        (pc = "done" /\ CleanBackup(b) /\ b \in DOMAIN bucketInfo
            /\ "files" \in DOMAIN bucketInfo[b])
            => RegularFiles(b) = ManifestKeys(b)

----------------------------------------------------------------------------
\* Properties of the complete backup command.

\* C24: two runs of the complete backup command never write the same dump
\* file: a dump file written by one run is not written by another run.
C24_RunsWriteDistinctDumps ==
    \A w1 \in dumpWrites, w2 \in dumpWrites :
        w1.file = w2.file => w1.run = w2.run

\* the runs of the command that have been started
RunsStarted == 1..allRun

\* the position of the command is past the end of run r
RunEnded(r) == r < allRun \/ allPc = "exited"

\* C26: in every run of the complete backup command the steps run are the
\* first steps of schema dump, seed-data dump, storage-schema dump, storage
\* file export, in that order; a step that failed is the last step of its
\* run and the run exits with code 1; the command exits with code 0 only
\* after all four steps have completed, and while the storage export has not
\* been started the storage backup does not run.
C26_StepsInOrderAndFailFast ==
    /\ \A r \in RunsStarted :
         LET log == StepsOfRun(r)
         IN  /\ Len(log) <= Len(Steps) + 1
             /\ \A i \in 1..Len(log) :
                  /\ log[i].step = i
                  /\ i < Len(log) => log[i].state = "ok"
                  /\ log[i].state = "failed" => RunEnded(r)
                  /\ log[i].state = "running" => r = allRun /\ allPc = "exporting"
    /\ LET log == StepsOfRun(allRun)
       IN  /\ allExit = 0 =>
                 /\ Len(log) = Len(Steps) + 1
                 /\ \A i \in 1..Len(log) : log[i].state = "ok"
           /\ (allPc = "exited" /\ \E i \in 1..Len(log) : log[i].state = "failed")
                 => allExit = 1
           /\ allPc = "exited" => allExit \in {0, 1}
           /\ (allRun = 1 /\ Len(log) <= Len(Steps)) => pc = "idle"
           /\ allPc = "dump" => Len(log) < Len(Steps)

\* a run that ended with code 0 after a run in which the seed dump failed
C26_Witness ==
    /\ allRun = 2
    /\ allPc = "exited"
    /\ allExit = 0
    /\ Len(StepsOfRun(1)) = 2
    /\ StepsOfRun(1)[2].state = "failed"
    /\ Len(StepsOfRun(2)) = 4

----------------------------------------------------------------------------
\* Properties of the verification of a storage backup.

\* C28: verify-backup prints the all-verified message only if every bucket of
\* export-summary.json was exported without a listing error and with
\* downloaded equal to the number of objects the bucket holds.
C28_AllVerifiedMeansComplete ==
    (vpc = "exited" /\ vmessage = "all-verified") =>
        \A i \in 1..Len(summaryFile[1].buckets) :
            LET r == summaryFile[1].buckets[i]
            IN  /\ "error" \notin DOMAIN r
                /\ r.downloaded = Cardinality(KeysOf(r.bucket))

----------------------------------------------------------------------------
\* Properties of the Categories page.

\* C30: when handleDelete has ended, it has shown the failure toast and not
\* fetched exactly when the delete it dispatched failed, and it has shown the
\* success toast and fetched the page on screen exactly when that delete
\* succeeded, whatever state.categories.error was before the click.
C30_ToastMatchesDelete ==
    deletion.pc = "done" =>
        /\ (deletion.toast = "fail" /\ deletion.refetch = 0) <=> ~deletion.ok
        /\ (deletion.toast = "success" /\ deletion.refetch = deletion.page)
               <=> deletion.ok

====
